---- MODULE Spec2Model ----
(***************************************************************************)
(* Battle resolution and content-derivation pipeline of app.py:            *)
(* outcome scoring, force and casualty estimation, prompt linting,         *)
(* schedule building over a seeded shared random generator, and the        *)
(* round-robin tournament.                                                 *)
(*                                                                         *)
(* Number representation (Python floats are modelled in fixed point):      *)
(*   scores and jitter      1 unit = 0.0001                                *)
(*   weights, modifiers     1 unit = 0.01                                  *)
(*   margin                 1 unit = 0.001                                 *)
(*   casualty rates         1 unit = 0.00001                               *)
(*   uniform split draws    1 unit = 0.001                                 *)
(***************************************************************************)
EXTENDS Integers, Sequences, FiniteSets, TLC

VARIABLES kb, proc, rng, session, sched, run, idx, pc, fr, rows, q, lq, tour

vars == <<kb, proc, rng, session, sched, run, idx, pc, fr, rows, q, lq, tour>>

----------------------------------------------------------------------------
(* Generic helpers *)

Min2(x, y) == IF x <= y THEN x ELSE y

Max2(x, y) == IF x >= y THEN x ELSE y

MinOf(S) == CHOOSE m \in S : \A n \in S : m <= n

\* x * n / d rounded to the nearest unit (float product kept at the unit)
MulDiv(x, n, d) == (x * n + d \div 2) \div d

Range(s) == {s[k] : k \in 1..Len(s)}

RECURSIVE JoinFrom(_, _, _)
JoinFrom(parts, sep, k) ==
  IF k > Len(parts) THEN ""
  ELSE IF k = Len(parts) THEN parts[k]
  ELSE parts[k] \o sep \o JoinFrom(parts, sep, k + 1)

\* sep.join(parts)
Join(parts, sep) == JoinFrom(parts, sep, 1)

----------------------------------------------------------------------------
(* Domain model and static tables *)

Faction(name, era, ranged, cavalry, infantry, armor, discipline, siege, logistics, naval, terrain_pref, palettes, motifs) ==
  [name |-> name, era |-> era, ranged |-> ranged, cavalry |-> cavalry,
   infantry |-> infantry, armor |-> armor, discipline |-> discipline,
   siege |-> siege, logistics |-> logistics, naval |-> naval,
   terrain_pref |-> terrain_pref, palettes |-> palettes, motifs |-> motifs]

\* the loader's result for a user entry that gives only a name
UserFaction(name) ==
  Faction(name, "Custom", 0, 0, 0, 0, 0, 0, 0, 0,
          <<"plains">>, <<"neutral tones">>, <<"banners">>)

\* the registry entries the model uses, merged with two user-defined factions
KB ==
  [n \in {"Romans", "Samurai", "Vikings", "Mongols", "Ottomans", "Greeks", "Militia", "Levy"} |->
    CASE n = "Romans" -> Faction("Romans", "Classical", 2, 2, 5, 4, 5, 5, 5, 3,
                                 <<"plains", "hills">>, <<"iron red", "sandstone">>,
                                 <<"testudo", "pilum volley", "eagle standards">>)
      [] n = "Samurai" -> Faction("Samurai", "Feudal Japan", 3, 2, 4, 3, 4, 2, 3, 3,
                                 <<"hills", "forests">>, <<"lacquered black", "blood red">>,
                                 <<"katana duel", "yumi volleys", "bushido">>)
      [] n = "Vikings" -> Faction("Vikings", "Norse", 2, 1, 4, 3, 3, 2, 2, 5,
                                 <<"coast", "snow">>, <<"cold blue", "storm seas">>,
                                 <<"longships", "axes", "shield wall">>)
      [] n = "Mongols" -> Faction("Mongols", "Steppe Empire", 5, 5, 2, 2, 4, 3, 5, 1,
                                 <<"steppe", "plains">>, <<"cold steppe blues", "dust storms">>,
                                 <<"horse archers", "encirclement", "keshik charge">>)
      [] n = "Ottomans" -> Faction("Ottomans", "Gunpowder Empire", 4, 3, 4, 3, 4, 5, 4, 4,
                                 <<"plains", "urban">>, <<"emerald", "smoke">>,
                                 <<"janissaries", "bombards", "crescent">>)
      [] n = "Greeks" -> Faction("Greeks", "Classical", 2, 2, 4, 3, 4, 3, 4, 4,
                                 <<"hills", "coast">>, <<"bronze", "Aegean blue">>,
                                 <<"phalanx", "triremes", "hoplons">>)
      [] n = "Militia" -> UserFaction("Militia")
      [] n = "Levy" -> UserFaction("Levy")]

TERRAIN_RULES ==
  [k \in {"plains", "hills", "forests", "steppe", "desert", "coast", "urban", "walls",
          "river valleys", "open sea"} |->
    CASE k = "plains" -> <<"sun-bleached flats", "rolling fields">>
      [] k = "hills" -> <<"misty foothills", "undulating ridgelines">>
      [] k = "forests" -> <<"dense woodland", "dark conifer stands">>
      [] k = "steppe" -> <<"endless grass seas", "cold steppe horizon">>
      [] k = "desert" -> <<"saffron dunes", "heat shimmer and sand haze">>
      [] k = "coast" -> <<"rocky shoreline", "spray and slate waves">>
      [] k = "urban" -> <<"broken walls and gatehouses", "narrow streets">>
      [] k = "walls" -> <<"battlements and siege towers">>
      [] k = "river valleys" -> <<"broad river meanders", "fog over terraces">>
      [] k = "open sea" -> <<"whitecaps and spray", "overcast swells">>]

WeatherKeys == {"clear", "fog", "rain", "snow", "windy"}

WEATHER ==
  [k \in WeatherKeys |->
    CASE k = "clear" -> [vis |-> ", crisp air", score |-> 0]
      [] k = "fog" -> [vis |-> ", ground fog and haze", score |-> -10]
      [] k = "rain" -> [vis |-> ", rain sheeting and churned mud", score |-> -5]
      [] k = "snow" -> [vis |-> ", blowing snow and breath vapor", score |-> -5]
      [] k = "windy" -> [vis |-> ", whipping banners and dust plumes", score |-> -2]]

ScenarioKeys == {"open field", "ambush", "river crossing", "hill defense", "siege", "naval"}

\* mod: the attribute modifiers in dictionary order, as <<attribute, delta>>
SCENARIOS ==
  [k \in ScenarioKeys |->
    CASE k = "open field" -> [desc |-> "battle lines form and advance",
                              mod |-> << <<"cavalry", 10>>, <<"infantry", 5>> >>]
      [] k = "ambush" -> [desc |-> "surprise strike on a flank",
                          mod |-> << <<"discipline", -5>>, <<"cavalry", 5>>, <<"ranged", 5>> >>]
      [] k = "river crossing" -> [desc |-> "forcing a ford under fire",
                          mod |-> << <<"discipline", 10>>, <<"ranged", 5>>, <<"cavalry", -5>> >>]
      [] k = "hill defense" -> [desc |-> "defender holds ridgeline",
                          mod |-> << <<"discipline", 5>>, <<"infantry", 5>>, <<"ranged", 5>> >>]
      [] k = "siege" -> [desc |-> "walls, engines, attrition",
                         mod |-> << <<"siege", 15>>, <<"logistics", 10>> >>]
      [] k = "naval" -> [desc |-> "oared rams, boarding, missiles",
                         mod |-> << <<"naval", 30>>, <<"ranged", 5>> >>]]

BANNED == {"savage", "barbaric", "primitive"}

\* the orders in which a process may iterate over the set BANNED
BannedOrders == {o \in [1..Cardinality(BANNED) -> BANNED] : \A i, j \in DOMAIN o : o[i] = o[j] => i = j}

CommanderKeys == {"aggressive", "defensive", "cunning", "logistician"}

\* trait -> attribute -> bonus; an absent attribute has bonus 0
COMMANDERS ==
  [c \in CommanderKeys |->
    CASE c = "aggressive" -> [s \in {"cavalry", "initiative"} |-> 5]
      [] c = "defensive" -> [s \in {"discipline", "armor"} |-> IF s = "discipline" THEN 5 ELSE 3]
      [] c = "cunning" -> [s \in {"ranged", "initiative"} |-> IF s = "ranged" THEN 5 ELSE 3]
      [] c = "logistician" -> [s \in {"logistics"} |-> 8]]

get_balanced_weights ==
  [discipline |-> 140, infantry |-> 130, armor |-> 110, logistics |-> 120,
   ranged |-> 115, cavalry |-> 110, siege |-> 90, naval |-> 100]

\* every weight slider at its minimum, 0.1
MinimumWeights ==
  [discipline |-> 10, infantry |-> 10, armor |-> 10, logistics |-> 10,
   ranged |-> 10, cavalry |-> 10, siege |-> 10, naval |-> 10]

----------------------------------------------------------------------------
(* Outcome resolver *)

\* variant: every terrain counts as preferred
terr_mod_Always(f, terrain_key) == 1

\* terr_mod: 1 when the terrain key is among the faction's preferred terrains
terr_mod(f, terrain_key) == IF terrain_key \in Range(f.terrain_pref) THEN 1 ELSE 0

\* COMMANDERS.get(cmd, {}).get(stat, 0.0)
cmd_mod(cmd, stat) ==
  IF cmd \in DOMAIN COMMANDERS /\ stat \in DOMAIN COMMANDERS[cmd] THEN COMMANDERS[cmd][stat] ELSE 0

RECURSIVE ApplyScenarioMods(_, _, _)
ApplyScenarioMods(base, mods, k) ==
  IF k > Len(mods) THEN base
  ELSE ApplyScenarioMods(MulDiv(base, 100 + mods[k][2], 100), mods, k + 1)

\* variant: every attribute counts with weight 1.0 whatever the weights
BaseScore_Unweighted(f, cmd, w, naval_mode) ==
    100 * (100 * f.discipline + 5 * cmd_mod(cmd, "discipline"))
  + 100 * (100 * f.infantry)
  + 100 * (100 * f.armor + 5 * cmd_mod(cmd, "armor"))
  + 100 * (100 * f.logistics + 5 * cmd_mod(cmd, "logistics"))
  + 100 * (100 * f.ranged + 5 * cmd_mod(cmd, "ranged"))
  + 100 * (100 * f.cavalry + 5 * cmd_mod(cmd, "cavalry"))
  + 100 * (100 * f.siege)
  + (100 * (100 * f.naval) * (IF naval_mode THEN 10 ELSE 2)) \div 10

\* the weighted attribute sum, before the terrain, weather and scenario factors
BaseScore(f, cmd, w, naval_mode) ==
    w.discipline * (100 * f.discipline + 5 * cmd_mod(cmd, "discipline"))
  + w.infantry * (100 * f.infantry)
  + w.armor * (100 * f.armor + 5 * cmd_mod(cmd, "armor"))
  + w.logistics * (100 * f.logistics + 5 * cmd_mod(cmd, "logistics"))
  + w.ranged * (100 * f.ranged + 5 * cmd_mod(cmd, "ranged"))
  + w.cavalry * (100 * f.cavalry + 5 * cmd_mod(cmd, "cavalry"))
  + w.siege * (100 * f.siege)
  + (w.naval * (100 * f.naval) * (IF naval_mode THEN 10 ELSE 2)) \div 10

\* score(f, cmd) of outcome, without jitter
score(f, cmd, terrain_key, scenario_key, weather_key, w, naval_mode) ==
  LET base0 == BaseScore(f, cmd, w, naval_mode)
      base1 == MulDiv(base0, 100 + 5 * terr_mod(f, terrain_key), 100)
      base2 == MulDiv(base1, 100 + WEATHER[weather_key].score, 100)
  IN ApplyScenarioMods(base2, SCENARIOS[scenario_key].mod, 1)

\* ws / max(ls, 0.001), in thousandths
Margin(ws, ls) == (ws * 1000) \div Max2(ls, 10)

\* raw draws of the generator are in 0..RawMax-1
RawMax == 65536

\* random.choice(seq) for a raw draw r
Choice(seq, r) == seq[(r % Len(seq)) + 1]

\* random.randint(lo, hi) for a raw draw r
RandInt(lo, hi, r) == lo + (r % (hi - lo + 1))

\* random.uniform(lo, hi) for a raw draw r
Uniform(lo, hi, r) == lo + ((hi - lo) * r) \div (RawMax - 1)

Reasons(winner, loser, a, terrain_key, scenario_key, cmd_a, cmd_b, naval_mode) ==
     (IF winner.ranged > loser.ranged THEN <<"missile superiority set tempo">> ELSE <<>>)
  \o (IF winner.cavalry > loser.cavalry THEN <<"mobility took the flanks">> ELSE <<>>)
  \o (IF winner.discipline > loser.discipline THEN <<"cohesion held under pressure">> ELSE <<>>)
  \o (IF winner.armor > loser.armor THEN <<"protection blunted shock">> ELSE <<>>)
  \o (IF winner.logistics > loser.logistics THEN <<"supply depth sustained lines">> ELSE <<>>)
  \o (IF winner.siege > loser.siege /\ SCENARIOS[scenario_key] = SCENARIOS["siege"]
      THEN <<"engineers dictated pace">> ELSE <<>>)
  \o (IF terr_mod(winner, terrain_key) = 1 /\ terr_mod(loser, terrain_key) = 0
      THEN <<"terrain familiarity mattered">> ELSE <<>>)
  \o (IF naval_mode /\ winner.naval > loser.naval
      THEN <<"seamanship and ramming skill dominated">> ELSE <<>>)
  \o << "commander edge: " \o (IF winner = a THEN cmd_a ELSE cmd_b) >>

\* variant: side A wins only on a strictly greater score
AWins_Strict(a_score, b_score) == a_score > b_score

\* the comparison that decides the winner: side A on greater-or-equal
AWins(a_score, b_score) == a_score >= b_score

\* outcome(...): d holds the four draws it takes, in order:
\* d.ja, d.jb the two jitters, d.m1, d.m2 the raw draws of the two motif choices.
\* Returns winner.name, the rationale, ws, ls.
outcome(a, b, terrain_key, scenario_key, weather_key, w, cmd_a, cmd_b, naval_mode, d) ==
  LET a_score == score(a, cmd_a, terrain_key, scenario_key, weather_key, w, naval_mode) + d.ja
      b_score == score(b, cmd_b, terrain_key, scenario_key, weather_key, w, naval_mode) + d.jb
      aw == AWins(a_score, b_score)
      winner == IF aw THEN a ELSE b
      loser == IF aw THEN b ELSE a
      ws == IF aw THEN a_score ELSE b_score
      ls == IF aw THEN b_score ELSE a_score
  IN [winner |-> winner.name,
      why |-> [reasons |-> Reasons(winner, loser, a, terrain_key, scenario_key, cmd_a, cmd_b, naval_mode),
               margin |-> Margin(ws, ls),
               visual |-> <<Choice(winner.motifs, d.m1), Choice(loser.motifs, d.m2)>>],
      ws |-> ws, ls |-> ls,
      a_score |-> a_score, b_score |-> b_score]

\* build_single: margin = (ws / max(ls, 0.001)) if ws and ls else 1.0
BuildSingleMargin(ws, ls) == IF ws # 0 /\ ls # 0 THEN Margin(ws, ls) ELSE 1000

----------------------------------------------------------------------------
(* Force and casualty estimator *)

choose_attacker(a, b, cmd_a, cmd_b, r) ==
  LET init_bonus(c) == CASE c = "aggressive" -> 50 [] c = "cunning" -> 25
                         [] c = "defensive" -> -25 [] c = "logistician" -> 10
                         [] OTHER -> 0
      sa == 100 * (a.cavalry + a.ranged + a.logistics) + init_bonus(cmd_a)
      sb == 100 * (b.cavalry + b.ranged + b.logistics) + init_bonus(cmd_b)
      diff == IF sa >= sb THEN sa - sb ELSE sb - sa
  IN IF diff < 50 THEN Choice(<<a.name, b.name>>, r)
     ELSE IF sa > sb THEN a.name ELSE b.name

\* whether choose_attacker takes a draw
AttackerDraws(a, b, cmd_a, cmd_b) ==
  LET init_bonus(c) == CASE c = "aggressive" -> 50 [] c = "cunning" -> 25
                         [] c = "defensive" -> -25 [] c = "logistician" -> 10
                         [] OTHER -> 0
      sa == 100 * (a.cavalry + a.ranged + a.logistics) + init_bonus(cmd_a)
      sb == 100 * (b.cavalry + b.ranged + b.logistics) + init_bonus(cmd_b)
      diff == IF sa >= sb THEN sa - sb ELSE sb - sa
  IN IF diff < 50 THEN 1 ELSE 0

\* the [base_min, base_max] range selected by scenario and mode
ForceRange(scenario_key, naval_mode) ==
  IF naval_mode \/ scenario_key = "naval" THEN <<1500, 8000>>
  ELSE IF scenario_key = "siege" THEN <<8000, 50000>>
  ELSE <<6000, 45000>>

\* variant: the size is capped at base_max but not raised to base_min
side_size_NoFloor(f, base_min, base_max, u, n) ==
  LET logi == Max2(0, Min2(5, f.logistics))
      scale == 600 + 100 * logi + u
  IN Min2(base_max, (scale * n) \div 1000)

\* side_size(f): u the uniform(-0.05, 0.05) draw in thousandths, n the randint draw
side_size(f, base_min, base_max, u, n) ==
  LET logi == Max2(0, Min2(5, f.logistics))
      scale == 600 + 100 * logi + u
  IN Max2(base_min, Min2(base_max, (scale * n) \div 1000))

\* estimate_force_sizes: d = <<uA, nA, uB, nB>>, the draws of side A then side B
estimate_force_sizes(a, b, scenario_key, naval_mode, d) ==
  LET r == ForceRange(scenario_key, naval_mode)
  IN <<side_size(a, r[1], r[2], d[1], d[2]), side_size(b, r[1], r[2], d[3], d[4])>>

scenario_intensity(scenario_key) ==
  CASE scenario_key = "open field" -> 22
    [] scenario_key = "ambush" -> 30
    [] scenario_key = "river crossing" -> 28
    [] scenario_key = "hill defense" -> 24
    [] scenario_key = "siege" -> 35
    [] scenario_key = "naval" -> 26
    [] OTHER -> 22

\* casualty_breakdown(size, rate): u1, u2 the two uniform draws in thousandths.
\* rate * size is kept in tenths of a casualty.
casualty_breakdown(size, rate, u1, u2) ==
  LET rs == ((rate \div 10) * size) \div 1000
      killed == (rs * u1) \div 10000
      wounded == (rs * u2) \div 10000
      captured == Max2(0, rs \div 10 - killed - wounded)
  IN <<killed, wounded, captured>>

\* int(rate * size): the size-scaled casualty count
CasualtyCount(size, rate) == (((rate \div 10) * size) \div 1000) \div 10

\* the final clamp of the two rates
ClampWinnerRate(r) == Max2(1000, Min2(30000, r))

\* variant: the loser rate is floored but not capped
ClampLoserRate_NoCap(r) == Max2(8000, r)

ClampLoserRate(r) == Max2(8000, Min2(65000, r))

\* winner and loser rate of estimate_casualties, <<winner_rate, loser_rate>>
CasualtyRates(winner, margin, scenario_key, weather_key, attacker) ==
  LET intensity == scenario_intensity(scenario_key)
      l0 == Min2(65000, Max2(12000, intensity * (800 + (6 * (margin - 1000)) \div 10)))
      w0 == Min2(28000, Max2(3000, intensity * (350 - (2 * (margin - 1000)) \div 10)))
      l1 == IF scenario_key = "ambush" THEN MulDiv(l0, 115, 100)
            ELSE IF scenario_key = "river crossing"
                 THEN (IF attacker = winner THEN l0 ELSE MulDiv(l0, 95, 100))
            ELSE IF scenario_key = "siege" THEN MulDiv(l0, 120, 100)
            ELSE l0
      w1 == IF scenario_key = "ambush" THEN MulDiv(w0, 90, 100)
            ELSE IF scenario_key = "river crossing"
                 THEN (IF attacker = winner THEN MulDiv(w0, 105, 100) ELSE MulDiv(w0, 120, 100))
            ELSE IF scenario_key = "siege" THEN MulDiv(w0, 110, 100)
            ELSE w0
      wsc == IF weather_key \in DOMAIN WEATHER THEN WEATHER[weather_key].score ELSE 0
      factor == Max2(85, 100 + wsc)
      l2 == IF wsc < 0 THEN MulDiv(l1, factor, 100) ELSE l1
      w2 == IF wsc < 0 THEN MulDiv(w1, factor, 100) ELSE w1
  IN <<ClampWinnerRate(w2), ClampLoserRate(l2)>>

\* variant: the duration names the whole range of its scenario
Duration_Range(scenario_key, r) ==
  IF scenario_key = "ambush" THEN "2-5 hours"
  ELSE IF scenario_key = "naval" THEN "3-8 hours"
  ELSE IF scenario_key = "siege" THEN ToString(RandInt(3, 21, r)) \o " days"
  ELSE "6-12 hours"

\* the duration string; r is the raw draw of its randint
Duration(scenario_key, r) ==
  IF scenario_key = "ambush" THEN ToString(RandInt(2, 5, r)) \o " hours"
  ELSE IF scenario_key = "naval" THEN ToString(RandInt(3, 8, r)) \o " hours"
  ELSE IF scenario_key = "siege" THEN ToString(RandInt(3, 21, r)) \o " days"
  ELSE ToString(RandInt(6, 12, r)) \o " hours"

\* estimate_casualties: d = <<u1A, u2A, u1B, u2B, rDuration>>, its five draws in order
estimate_casualties(a, b, winner, margin, scenario_key, weather_key, terrain_key, naval_mode, size_a, size_b, attacker, d) ==
  LET rates == CasualtyRates(winner, margin, scenario_key, weather_key, attacker)
      rate_a == IF winner = a.name THEN rates[1] ELSE rates[2]
      rate_b == IF winner = a.name THEN rates[2] ELSE rates[1]
      ca == casualty_breakdown(size_a, rate_a, d[1], d[2])
      cb == casualty_breakdown(size_b, rate_b, d[3], d[4])
  IN [rate_a |-> MulDiv(rate_a, 1, 100), rate_b |-> MulDiv(rate_b, 1, 100),
      winner_rate |-> rates[1], loser_rate |-> rates[2],
      cas_a |-> [killed |-> ca[1], wounded |-> ca[2], captured |-> ca[3], total |-> ca[1] + ca[2] + ca[3]],
      cas_b |-> [killed |-> cb[1], wounded |-> cb[2], captured |-> cb[3], total |-> cb[1] + cb[2] + cb[3]],
      duration |-> Duration(scenario_key, d[5])]

\* pick_terrain_key: r is the raw draw of its choice (not taken in naval mode)
pick_terrain_key(a, b, naval_mode, r) ==
  IF naval_mode THEN "open sea"
  ELSE Choice(a.terrain_pref \o b.terrain_pref \o <<"plains">>, r)

----------------------------------------------------------------------------
(* Text: Python str and re operations on strings *)

CharAt(s, i) == SubSeq(s, i, i)

UPPERCASE == "ABCDEFGHIJKLMNOPQRSTUVWXYZ"

LOWERCASE == "abcdefghijklmnopqrstuvwxyz"

DIGITS == "0123456789"

CharIn(c, alphabet) == \E k \in 1..Len(alphabet) : CharAt(alphabet, k) = c

\* [A-Za-z]
IsAlpha(c) == CharIn(c, UPPERCASE) \/ CharIn(c, LOWERCASE)

\* \w of the regular expressions
IsWordChar(c) == IsAlpha(c) \/ CharIn(c, DIGITS) \/ c = "_"

\* \s of the regular expressions
IsSpace(c) == c = " "

LowerChar(c) ==
  IF CharIn(c, UPPERCASE)
  THEN CharAt(LOWERCASE, CHOOSE k \in 1..Len(UPPERCASE) : CharAt(UPPERCASE, k) = c)
  ELSE c

RECURSIVE Lower(_)
\* str.lower()
Lower(s) ==
  IF Len(s) = 0 THEN ""
  ELSE IF Len(s) = 1 THEN LowerChar(s)
  ELSE LET h == Len(s) \div 2 IN Lower(SubSeq(s, 1, h)) \o Lower(SubSeq(s, h + 1, Len(s)))

\* the start positions of sub in s
Occurrences(s, sub) == {i \in 1..(Len(s) - Len(sub) + 1) : SubSeq(s, i, i + Len(sub) - 1) = sub}

\* sub in s
Contains(s, sub) == Occurrences(s, sub) # {}

RECURSIVE ReplaceMatches(_, _, _, _)
\* Replace by new the matches of s taken left to right without overlap;
\* cand is the set of candidate matches <<start, length>>, scanning resumes at i.
ReplaceMatches(s, cand, new, i) ==
  LET rest == {m \in cand : m[1] >= i} IN
  IF rest = {} THEN SubSeq(s, i, Len(s))
  ELSE LET st == MinOf({m[1] : m \in rest})
           m == CHOOSE x \in rest : x[1] = st
       IN SubSeq(s, i, st - 1) \o new \o ReplaceMatches(s, cand, new, st + m[2])

\* str.replace(old, new)
Replace(s, old, new) == ReplaceMatches(s, {<<i, Len(old)>> : i \in Occurrences(s, old)}, new, 1)

\* whether c is of the character class cls: "alpha" for [A-Za-z], "space" for \s
InClass(c, cls) == IF cls = "alpha" THEN IsAlpha(c) ELSE IsSpace(c)

\* the end of the maximal run of characters of class cls that starts at i
RunEnd(s, i, cls) ==
  MinOf({j \in i..Len(s) : j = Len(s) \/ ~InClass(CharAt(s, j + 1), cls)})

\* the maximal runs <<start, end>> of characters of class cls
Runs(s, cls) ==
  {<<i, RunEnd(s, i, cls)>> :
     i \in {k \in 1..Len(s) : InClass(CharAt(s, k), cls) /\ (k = 1 \/ ~InClass(CharAt(s, k - 1), cls))}}

\* set(re.findall(r"[A-Za-z]+", s))
AlphaWords(s) == {SubSeq(s, r[1], r[2]) : r \in Runs(s, "alpha")}

\* str.strip() of spaces
Strip(s) ==
  LET keep == {i \in 1..Len(s) : ~IsSpace(CharAt(s, i))}
  IN IF keep = {} THEN "" ELSE SubSeq(s, MinOf(keep), CHOOSE m \in keep : \A n \in keep : n <= m)

----------------------------------------------------------------------------
(* Prompt linter and export-time cleanup *)

RECURSIVE SanitizeFrom(_, _, _)
SanitizeFrom(t, order, k) ==
  IF k > Len(order) THEN t ELSE SanitizeFrom(Replace(t, order[k], ""), order, k + 1)

\* sanitize(text): order is the order in which the set BANNED is iterated
sanitize(text, order) == SanitizeFrom(text, order, 1)

\* lint_prompt(prompt, a, b)
lint_prompt(prompt, a, b, order) ==
  LET gunpowder_ok == (\E x \in {"Gunpowder", "Song", "Yuan", "Ottoman"} : Contains(a.era \o b.era, x))
                      \/ a.name = "Chinese" \/ b.name = "Chinese"
      p == IF ~gunpowder_ok THEN Replace(Replace(prompt, "bombards", "catapults"), "rifles", "bows")
           ELSE prompt
  IN sanitize(p, order)

MISMATCH_BLOCKLIST ==
  <<"samurai", "ninja", "ronin", "vikings", "viking", "knights", "janissary", "janissaries",
    "muskets", "rifles", "bombards", "aztecs", "maya", "incas", "mongols", "huns", "celts",
    "greeks", "romans", "byzantines", "ottomans", "zulu", "mali", "ethiopians", "carthage",
    "persians", "chinese", "han", "tang", "song", "yuan", "ming", "qing", "koreans", "khmer",
    "thai", "vietnamese">>

\* the matches of (?i)\b{tok}s?\b in p, as <<start, length>>
TokenMatches(p, tok) ==
  LET L == Len(tok)
      lp == Lower(p)
      boundaryBefore(i) == i = 1 \/ ~IsWordChar(CharAt(p, i - 1))
      boundaryAfter(j) == j = Len(p) \/ ~IsWordChar(CharAt(p, j + 1))
      starts == {i \in Occurrences(lp, tok) : boundaryBefore(i)}
  IN {<<i, L + 1>> : i \in {k \in starts : k + L <= Len(p) /\ CharAt(lp, k + L) = "s"
                                           /\ boundaryAfter(k + L)}}
     \cup {<<i, L>> : i \in {k \in starts : boundaryAfter(k + L - 1)}}

RECURSIVE StripTokens(_, _, _)
\* the loop over MISMATCH_BLOCKLIST
StripTokens(p, keep, k) ==
  IF k > Len(MISMATCH_BLOCKLIST) THEN p
  ELSE LET tok == MISMATCH_BLOCKLIST[k]
           p2 == IF tok \notin keep THEN ReplaceMatches(p, TokenMatches(p, tok), "", 1) ELSE p
       IN IF Len(p2) >= 0 THEN StripTokens(p2, keep, k + 1) ELSE p2

\* re.sub(r"\s{2,}", " ", p)
CollapseSpaces(p) ==
  ReplaceMatches(p, {<<r[1], r[2] - r[1] + 1>> : r \in {x \in Runs(p, "space") : x[2] > x[1]}}, " ", 1)

\* re.sub(r",\s*,", ", ", p)
CollapseCommas(p) ==
  LET commas == {i \in 1..Len(p) : CharAt(p, i) = ","}
      nextComma(i) == {j \in commas : j > i /\ \A k \in (i + 1)..(j - 1) : IsSpace(CharAt(p, k))}
  IN ReplaceMatches(p, {<<i, MinOf(nextComma(i)) - i + 1>> : i \in {c \in commas : nextComma(c) # {}}},
                    ", ", 1)

\* re.sub(r"\s+,", ",", p)
SpaceBeforeComma(p) ==
  ReplaceMatches(p, {<<r[1], r[2] - r[1] + 2>> :
                       r \in {x \in Runs(p, "space") : x[2] < Len(p) /\ CharAt(p, x[2] + 1) = ","}},
                 ",", 1)

\* prompt_autoclean(prompt, matchup)
prompt_autoclean(prompt, matchup) ==
  LET keep == AlphaWords(Lower(matchup))
      p1 == StripTokens(prompt, keep, 1)
  IN Strip(SpaceBeforeComma(CollapseCommas(CollapseSpaces(p1))))

----------------------------------------------------------------------------
(* Resolution calls with the draws chosen freely: one call per behaviour.  *)
(* q.op names the operation, q.in its arguments, q.out its result.         *)

IdleCall == [op |-> "idle", in |-> <<>>, out |-> <<>>, done |-> TRUE]

IdleRng == [seed |-> 0, pos |-> 0]

IdleTour == [pc |-> "idle"]

IdleProc == [banned_order |-> <<"savage", "barbaric", "primitive">>]

IdleSession == [pov_mode |-> "mixed", alt_timeline |-> TRUE]

ResolveFactions == {"Romans", "Samurai", "Militia", "Levy"}

WeightChoices == {get_balanced_weights, MinimumWeights}

\* jitter draws of uniform(-0.8, 0.8): both ends and the middle
JitterChoices == {-8000, 0, 8000}

\* margins handed to estimate_casualties directly, in thousandths
MarginChoices == {-800000, 0, 500, 1000, 1200, 2000, 3500, 40000000}

SizeChoices == {<<6000, 45000>>, <<10000, 10000>>}

OutcomeInputs ==
  {[a |-> KB[an], b |-> KB[bn], terrain_key |-> tk, scenario_key |-> sk, weather_key |-> wk,
    weights |-> w, cmd_a |-> ca, cmd_b |-> cb, naval_mode |-> nm] :
     an \in ResolveFactions, bn \in ResolveFactions,
     tk \in {"plains", "forests", "open sea"}, sk \in ScenarioKeys, wk \in WeatherKeys,
     w \in WeightChoices, ca \in {"aggressive", "logistician"}, cb \in {"defensive", "aggressive"},
     nm \in BOOLEAN}

ForcesInputs ==
  {[a |-> KB[an], b |-> KB[bn], scenario_key |-> sk, naval_mode |-> nm] :
     an \in ResolveFactions, bn \in ResolveFactions, sk \in ScenarioKeys, nm \in BOOLEAN}

CasualtiesInputs ==
  {[a |-> KB["Romans"], b |-> KB["Samurai"], winner |-> wn, margin |-> m, scenario_key |-> sk,
    weather_key |-> wk, terrain_key |-> "plains", naval_mode |-> FALSE,
    size_a |-> sz[1], size_b |-> sz[2], attacker |-> at] :
     wn \in {"Romans", "Samurai"}, m \in MarginChoices, sk \in ScenarioKeys, wk \in WeatherKeys,
     sz \in SizeChoices, at \in {"Romans", "Samurai"}}

InitResolve ==
  /\ kb = KB
  /\ q \in {[op |-> "outcome", in |-> i, out |-> <<>>, done |-> FALSE] :
              i \in {x \in OutcomeInputs : (x.terrain_key = "open sea") <=> x.naval_mode}}
        \cup {[op |-> "forces", in |-> i, out |-> <<>>, done |-> FALSE] : i \in ForcesInputs}
        \cup {[op |-> "casualties", in |-> i, out |-> <<>>, done |-> FALSE] : i \in CasualtiesInputs}
  /\ proc = IdleProc
  /\ rng = IdleRng
  /\ session = IdleSession
  /\ sched = <<>>
  /\ run = 0
  /\ idx = 0
  /\ pc = "idle"
  /\ fr = <<>>
  /\ rows = <<>>
  /\ lq = IdleCall
  /\ tour = IdleTour

\* build_single, lines 666-668: resolve the matchup and recompute the margin
ResolveStep ==
  /\ q.op = "outcome" /\ ~q.done
  /\ \E ja \in JitterChoices, jb \in JitterChoices, m \in {0, 1} :
       LET i == q.in
           res == outcome(i.a, i.b, i.terrain_key, i.scenario_key, i.weather_key, i.weights,
                          i.cmd_a, i.cmd_b, i.naval_mode, [ja |-> ja, jb |-> jb, m1 |-> m, m2 |-> m])
       IN q' = [q EXCEPT !.out = [res |-> res, margin |-> BuildSingleMargin(res.ws, res.ls)],
                         !.done = TRUE]
  /\ UNCHANGED <<kb, proc, rng, session, sched, run, idx, pc, fr, rows, lq, tour>>

ForcesStep ==
  /\ q.op = "forces" /\ ~q.done
  /\ LET i == q.in
         r == ForceRange(i.scenario_key, i.naval_mode)
         mid == (r[1] + r[2]) \div 2
     IN \E ua \in {-50, 0, 50}, ub \in {-50, 0, 50}, na \in {r[1], mid, r[2]}, nb \in {r[1], mid, r[2]} :
          q' = [q EXCEPT !.out = [sizes |-> estimate_force_sizes(i.a, i.b, i.scenario_key, i.naval_mode,
                                                                 <<ua, na, ub, nb>>),
                                  draws |-> <<ua, na, ub, nb>>],
                         !.done = TRUE]
  /\ UNCHANGED <<kb, proc, rng, session, sched, run, idx, pc, fr, rows, lq, tour>>

CasualtiesStep ==
  /\ q.op = "casualties" /\ ~q.done
  /\ \E u1a \in {300, 450}, u2a \in {450, 600}, u1b \in {300, 450}, u2b \in {450, 600}, rd \in {0, 5} :
       LET i == q.in
       IN q' = [q EXCEPT !.out = [cas |-> estimate_casualties(i.a, i.b, i.winner, i.margin, i.scenario_key,
                                            i.weather_key, i.terrain_key, i.naval_mode,
                                            i.size_a, i.size_b, i.attacker, <<u1a, u2a, u1b, u2b, rd>>),
                                  draws |-> <<u1a, u2a, u1b, u2b, rd>>],
                         !.done = TRUE]
  /\ UNCHANGED <<kb, proc, rng, session, sched, run, idx, pc, fr, rows, lq, tour>>

NextResolve == ResolveStep \/ ForcesStep \/ CasualtiesStep

SpecResolve == InitResolve /\ [][NextResolve]_vars

----------------------------------------------------------------------------
(* Properties of the resolution calls *)

OutcomeDone == q.op = "outcome" /\ q.done

ForcesDone == q.op = "forces" /\ q.done

CasualtiesDone == q.op = "casualties" /\ q.done

\* C3: in outcome, equal final scores make side A the winner, and side B is
\* the winner only when its final score is strictly greater than side A's.
C3_TieGoesToA ==
  OutcomeDone =>
    LET r == q.out.res IN
      /\ r.a_score = r.b_score => (r.winner = q.in.a.name /\ r.ws = r.a_score /\ r.ls = r.b_score)
      /\ (r.winner = q.in.b.name /\ q.in.a.name # q.in.b.name) => r.b_score > r.a_score
      /\ r.b_score > r.a_score => r.winner = q.in.b.name

\* a tie between two different factions, resolved for side A
C3_Witness ==
  /\ OutcomeDone
  /\ q.in.a.name # q.in.b.name
  /\ q.out.res.a_score = q.out.res.b_score
  /\ q.out.res.winner = q.in.a.name

\* C4: the margin winner_score / max(loser_score, 0.001), as reported by
\* outcome and as recomputed by build_single, is at least 1 for every resolution.
C4_MarginAtLeastOne ==
  OutcomeDone => (q.out.res.why.margin >= 1000 /\ q.out.margin >= 1000)

\* C5: the final winner casualty rate lies in [0.01, 0.30] and the final
\* loser casualty rate lies in [0.08, 0.65], for any margin, scenario,
\* weather, attacker and winner.
C5_RateBounds ==
  CasualtiesDone =>
    /\ q.out.cas.winner_rate >= 1000 /\ q.out.cas.winner_rate <= 30000
    /\ q.out.cas.loser_rate >= 8000 /\ q.out.cas.loser_rate <= 65000

\* a siege with a decisive margin: the loser rate before the final clamp is
\* 0.65 x 1.2, and the clamp brings it back to 0.65
C5_Witness ==
  /\ CasualtiesDone
  /\ q.in.scenario_key = "siege"
  /\ q.in.weather_key = "clear"
  /\ q.in.margin >= 3500
  /\ q.out.cas.loser_rate = 65000

\* C6: for each side killed + wounded + captured equals the size-scaled
\* casualty count int(rate x size), and the stored total equals that count.
C6_SplitSumsToCount ==
  CasualtiesDone =>
    LET c == q.out.cas
        rate_a == IF q.in.winner = q.in.a.name THEN c.winner_rate ELSE c.loser_rate
        rate_b == IF q.in.winner = q.in.a.name THEN c.loser_rate ELSE c.winner_rate
    IN /\ c.cas_a.killed + c.cas_a.wounded + c.cas_a.captured = CasualtyCount(q.in.size_a, rate_a)
       /\ c.cas_a.total = CasualtyCount(q.in.size_a, rate_a)
       /\ c.cas_b.killed + c.cas_b.wounded + c.cas_b.captured = CasualtyCount(q.in.size_b, rate_b)
       /\ c.cas_b.total = CasualtyCount(q.in.size_b, rate_b)

\* C7: each of the two force sizes lies within the range selected by the
\* scenario and the naval flag.
C7_ForceSizeInRange ==
  ForcesDone =>
    LET r == ForceRange(q.in.scenario_key, q.in.naval_mode) IN
      /\ r = (IF q.in.naval_mode \/ q.in.scenario_key = "naval" THEN <<1500, 8000>>
              ELSE IF q.in.scenario_key = "siege" THEN <<8000, 50000>> ELSE <<6000, 45000>>)
      /\ q.out.sizes[1] >= r[1] /\ q.out.sizes[1] <= r[2]
      /\ q.out.sizes[2] >= r[1] /\ q.out.sizes[2] <= r[2]

\* a faction without logistics drawing the smallest count: scale x count is
\* below the range and the result is raised to its minimum
C7_Witness ==
  /\ ForcesDone
  /\ q.in.a.logistics = 0
  /\ q.out.draws[2] = ForceRange(q.in.scenario_key, q.in.naval_mode)[1]
  /\ q.out.sizes[1] = ForceRange(q.in.scenario_key, q.in.naval_mode)[1]
  /\ q.out.sizes[2] = ForceRange(q.in.scenario_key, q.in.naval_mode)[2]

\* C13: the third and fourth results of outcome are side A's final score and
\* side B's final score, in that order, whichever side wins.
C13_ScoresInSideOrder ==
  OutcomeDone => (q.out.res.ws = q.out.res.a_score /\ q.out.res.ls = q.out.res.b_score)

----------------------------------------------------------------------------
(* Lint and cleanup calls on chosen prompts: one call per behaviour *)

LintPrompts ==
  {"Romans vs Samurai, misty foothills, testudo, bushido",
   "a savage horde with rifles",
   "primitive bombards, barbaric rifles",
   "sasavagevage charge",
   "savbarbaricage",
   "barbarprimitiveic spears",
   "priprimitivemitive huts",
   "Savage raid at dawn"}

LintFactions == {"Romans", "Samurai", "Ottomans"}

MatchupFactions == {"Romans", "Greeks", "Vikings", "Samurai", "Mongols"}

\* f"{a.name} vs {b.name}", the Matchup field of a record
MatchupText(a, b) == a.name \o " vs " \o b.name

\* what follows the matchup in the prompts handed to the cleanup
CleanTails ==
  {", samurai charge, testudo",
   ", longships, viking raid",
   ", Samurais and ninja ,  , mongols ride",
   ", Greeks hold the ridge , romans advance,,",
   ", bronze, dust haze"}

InitLint ==
  /\ kb = KB
  /\ \/ /\ lq \in {[op |-> "lint", in |-> [prompt |-> p, a |-> KB[an], b |-> KB[bn]],
                       out |-> "", done |-> FALSE] :
                        p \in LintPrompts, an \in LintFactions, bn \in LintFactions}
        /\ proc \in {[banned_order |-> o] : o \in BannedOrders}
     \/ /\ lq \in {[op |-> "autoclean",
                       in |-> [prompt |-> MatchupText(KB[pa], KB[pb]) \o t,
                               matchup |-> MatchupText(KB[an], KB[bn])],
                       out |-> "", done |-> FALSE] :
                        t \in CleanTails, an \in MatchupFactions, bn \in MatchupFactions,
                        pa \in {"Romans", "Vikings"}, pb \in {"Greeks", "Samurai"}}
        /\ proc = IdleProc
  /\ rng = IdleRng
  /\ session = IdleSession
  /\ sched = <<>>
  /\ run = 0
  /\ idx = 0
  /\ pc = "idle"
  /\ fr = <<>>
  /\ rows = <<>>
  /\ q = IdleCall
  /\ tour = IdleTour

LintStep ==
  /\ lq.op = "lint" /\ ~lq.done
  /\ lq' = [lq EXCEPT !.out = lint_prompt(lq.in.prompt, lq.in.a, lq.in.b, proc.banned_order),
                      !.done = TRUE]
  /\ UNCHANGED <<kb, proc, rng, session, sched, run, idx, pc, fr, rows, q, tour>>

AutocleanStep ==
  /\ lq.op = "autoclean" /\ ~lq.done
  /\ lq' = [lq EXCEPT !.out = prompt_autoclean(lq.in.prompt, lq.in.matchup), !.done = TRUE]
  /\ UNCHANGED <<kb, proc, rng, session, sched, run, idx, pc, fr, rows, q, tour>>

NextLint == LintStep \/ AutocleanStep

SpecLint == InitLint /\ [][NextLint]_vars

LintDone == lq.op = "lint" /\ lq.done

AutocleanDone == lq.op = "autoclean" /\ lq.done

\* C8: the output of lint_prompt contains no occurrence of any word of the
\* banned set, for any input prompt.
C8_NoBannedWord ==
  LintDone => \A w \in BANNED : ~Contains(lq.out, w)

\* C9: prompt_autoclean strips every blocklist token that does not literally
\* appear in the matchup string, and retains every word of the prompt that
\* does appear in the matchup string.
C9_StripsAndRetains ==
  AutocleanDone =>
    /\ \A k \in 1..Len(MISMATCH_BLOCKLIST) :
         ~Contains(Lower(lq.in.matchup), MISMATCH_BLOCKLIST[k])
           => TokenMatches(lq.out, MISMATCH_BLOCKLIST[k]) = {}
    /\ \A w \in AlphaWords(lq.in.prompt) :
         Lower(w) \in AlphaWords(Lower(lq.in.matchup)) => w \in AlphaWords(lq.out)

----------------------------------------------------------------------------
(* The shared random generator.  Its state is the seed last set and the    *)
(* number of draws taken since; a draw is a fixed function of that state.  *)

\* random.seed(x)
Seeded(x) == [seed |-> x, pos |-> 0]

\* the state after n further draws
Advance(r, n) == [r EXCEPT !.pos = @ + n]

\* the raw value of the next draw in state r
Raw(r) ==
  ((r.seed % 32749) * 31337 + (r.pos + 1) * 48271 + ((r.seed % 251) * (r.pos + 1)) * 1009) % RawMax

\* the raw value of the draw taken after k others from state r
Draw(r, k) == Raw(Advance(r, k))

\* the four draws of outcome, taken from state r
OutcomeDraws(r) ==
  [ja |-> Uniform(-8000, 8000, Draw(r, 0)), jb |-> Uniform(-8000, 8000, Draw(r, 1)),
   m1 |-> Draw(r, 2), m2 |-> Draw(r, 3)]

----------------------------------------------------------------------------
(* Tournament / Elo *)

\* 10 ** (d / 400) in units of 0.0001, d in units of 0.0001 rating points:
\* d = 400 k + r with 0 <= r < 400, 10 ** (r / 400) = exp(y) ** 4 with
\* y = r * ln(10) / 1600 summed as a power series
Pow10Over400(d) ==
  LET k == d \div 4000000
      r == d - k * 4000000
      y == ((r \div 100) * 14391) \div 100000
      t2 == (y * y) \div 20000
      t3 == (t2 * y) \div 30000
      t4 == (t3 * y) \div 40000
      t5 == (t4 * y) \div 50000
      e == 10000 + y + t2 + t3 + t4 + t5
      e2 == (e * e) \div 10000
      e4 == (e2 * e2) \div 10000
  IN IF k >= 0 THEN e4 * 10 ^ k ELSE e4 \div 10 ^ (0 - k)

\* variant: the denominator without its leading 1.0
expected_score_NoOne(ra, rb) == MulDiv(10000, 10000, Max2(1, Pow10Over400(rb - ra)))

\* expected_score(ra, rb), in units of 0.0001
expected_score(ra, rb) == MulDiv(10000, 10000, 10000 + Pow10Over400(rb - ra))

\* the K factor of update_elo
EloK == 24

\* variant: only the first faction's rating is updated
update_elo_FirstOnly(ra, rb, sa) ==
  LET ea == expected_score(ra, rb)
  IN <<ra + EloK * (sa - ea), rb>>

\* update_elo(ra, rb, sa): sa is 10000 for a win of the first faction, 0 otherwise
update_elo(ra, rb, sa) ==
  LET ea == expected_score(ra, rb)
  IN <<ra + EloK * (sa - ea), rb + EloK * ((10000 - sa) - (10000 - ea))>>

\* the rating every faction starts a tournament with
EloBaseline == 15000000

RECURSIVE SortByElo(_, _)
\* the names ordered by descending rating
SortByElo(names, elo) ==
  IF names = {} THEN <<>>
  ELSE LET top == CHOOSE n \in names : \A m \in names : elo[n] >= elo[m]
       IN <<[Faction |-> top, Elo |-> elo[top]]>> \o SortByElo(names \ {top}, elo)

MaxNames == 3

TourneyFactions == {"Romans", "Mongols", "Samurai", "Vikings", "Militia"}

DistinctSeqs(S, n) == {sq \in [1..n -> S] : \A i, j \in 1..n : sq[i] = sq[j] => i = j}

TourneyInputs ==
  {[names |-> nm, seed |-> sd, weights |-> w, scenario_key |-> sk, weather_key |-> wk, naval_mode |-> nv] :
     nm \in UNION {DistinctSeqs(TourneyFactions, n) : n \in 2..MaxNames},
     sd \in {777, 778}, w \in WeightChoices, sk \in {"open field", "siege"},
     wk \in {"clear", "fog"}, nv \in BOOLEAN}

InitTourney ==
  /\ kb = KB
  /\ tour \in {[in |-> i, pc |-> "start", i |-> 1, j |-> 2, elo |-> <<>>, matches |-> <<>>, table |-> <<>>] :
                 i \in TourneyInputs}
  /\ rng \in {Seeded(0), [seed |-> 4242, pos |-> 7]}
  /\ proc = IdleProc
  /\ session = IdleSession
  /\ sched = <<>>
  /\ run = 0
  /\ idx = 0
  /\ pc = "idle"
  /\ fr = <<>>
  /\ rows = <<>>
  /\ q = IdleCall
  /\ lq = IdleCall

\* play_round_robin, lines 876-878
RRStart ==
  /\ tour.pc = "start"
  /\ rng' = Seeded(tour.in.seed)
  /\ tour' = [tour EXCEPT !.pc = "loop", !.i = 1, !.j = 2,
                          !.elo = [n \in Range(tour.in.names) |-> EloBaseline],
                          !.matches = <<>>]
  /\ UNCHANGED <<kb, proc, session, sched, run, idx, pc, fr, rows, q, lq>>

\* variant: the inner loop starts at i instead of i + 1
NextPair_FromI(i, j, n) == IF j < n THEN <<i, j + 1>> ELSE <<i + 1, i + 1>>

\* the loop indices after the pairing (i, j) of n names
NextPair(i, j, n) == IF j < n THEN <<i, j + 1>> ELSE <<i + 1, i + 2>>

\* variant: only the first faction's new rating is stored
StoreRatings_FirstOnly(elo, a_name, b_name, upd) == [elo EXCEPT ![a_name] = upd[1]]

\* line 885: elo[a.name], elo[b.name] = update_elo(...), assigned left to right
StoreRatings(elo, a_name, b_name, upd) == [[elo EXCEPT ![a_name] = upd[1]] EXCEPT ![b_name] = upd[2]]

\* one pairing of the double loop, lines 879-886
RRPair ==
  /\ tour.pc = "loop"
  /\ tour.i < Len(tour.in.names)
  /\ LET a == KB[tour.in.names[tour.i]]
         b == KB[tour.in.names[tour.j]]
         n0 == IF tour.in.naval_mode THEN 0 ELSE 1
         tk == pick_terrain_key(a, b, tour.in.naval_mode, Draw(rng, 0))
         res == outcome(a, b, tk, tour.in.scenario_key, tour.in.weather_key, tour.in.weights,
                        "aggressive", "defensive", tour.in.naval_mode, OutcomeDraws(Advance(rng, n0)))
         sa_n == IF res.winner = a.name THEN 10000 ELSE 0
         upd == update_elo(tour.elo[a.name], tour.elo[b.name], sa_n)
         nxt == NextPair(tour.i, tour.j, Len(tour.in.names))
     IN /\ rng' = Advance(rng, n0 + 4)
        /\ tour' = [tour EXCEPT !.elo = StoreRatings(@, a.name, b.name, upd),
                                !.matches = Append(@, [A |-> a.name, B |-> b.name, Winner |-> res.winner]),
                                !.i = nxt[1], !.j = nxt[2]]
  /\ UNCHANGED <<kb, proc, session, sched, run, idx, pc, fr, rows, q, lq>>

\* the leaderboard, lines 887-888
RRFinish ==
  /\ tour.pc = "loop"
  /\ tour.i >= Len(tour.in.names)
  /\ tour' = [tour EXCEPT !.pc = "done", !.table = SortByElo(DOMAIN tour.elo, tour.elo)]
  /\ UNCHANGED <<kb, proc, rng, session, sched, run, idx, pc, fr, rows, q, lq>>

NextTourney == RRStart \/ RRPair \/ RRFinish

SpecTourney == InitTourney /\ [][NextTourney]_vars

\* the unordered pairs of the input factions
UnorderedPairs(names) == {{names[i], names[j]} : i, j \in 1..Len(names)} \ {{names[i]} : i \in 1..Len(names)}

\* C10: a finished round robin over N distinct factions has played exactly
\* N x (N-1)/2 matches, and every unordered pair of the input factions
\* appears in the match log exactly once.
C10_RoundRobinComplete ==
  tour.pc = "done" =>
    LET n == Len(tour.in.names) IN
      /\ Len(tour.matches) = (n * (n - 1)) \div 2
      /\ \A pr \in UnorderedPairs(tour.in.names) :
           Cardinality({k \in 1..Len(tour.matches) : {tour.matches[k].A, tour.matches[k].B} = pr}) = 1
      /\ \A k \in 1..Len(tour.matches) :
           {tour.matches[k].A, tour.matches[k].B} \in UnorderedPairs(tour.in.names)

\* a finished tournament of at least three factions
C10_Witness ==
  /\ tour.pc = "done"
  /\ Len(tour.in.names) >= 3
  /\ Len(tour.matches) >= 3
  /\ \E k \in 1..Len(tour.matches) : tour.matches[k].Winner = tour.matches[k].B

\* the pairing just appended to the match log by a step
LastMatch == tour'.matches[Len(tour'.matches)]

\* a step of the round robin that played one pairing
PairingPlayed ==
  /\ tour.pc = "loop"
  /\ tour'.pc = "loop"
  /\ Len(tour'.matches) = Len(tour.matches) + 1

\* C11: a pairing moves each participant's rating to old + 24 x (actual -
\* expected), actual being 1 for the winner and 0 for the loser and expected
\* the participant's expected score against the other (the second
\* participant's to within the resolution of the arithmetic); the winner's
\* rating strictly rises, the loser's strictly falls, and every other
\* faction's rating is unchanged.
C11_PairingUpdatesElo ==
  [][PairingPlayed =>
       LET a == LastMatch.A
           b == LastMatch.B
           w == LastMatch.Winner
           l == IF w = a THEN b ELSE a
           act_a == IF w = a THEN 10000 ELSE 0
           act_b == IF w = b THEN 10000 ELSE 0
           new_a == tour.elo[a] + 24 * (act_a - expected_score(tour.elo[a], tour.elo[b]))
           new_b == tour.elo[b] + 24 * (act_b - expected_score(tour.elo[b], tour.elo[a]))
       IN /\ w \in {a, b}
          /\ a # b
          /\ tour'.elo[a] = new_a
          /\ tour'.elo[b] - new_b \in -120..120
          /\ tour'.elo[w] > tour.elo[w]
          /\ tour'.elo[l] < tour.elo[l]
          /\ \A n \in DOMAIN tour.elo \ {a, b} : tour'.elo[n] = tour.elo[n]
          /\ DOMAIN tour'.elo = DOMAIN tour.elo]_vars

C11_Witness ==
  /\ tour.pc = "loop"
  /\ Len(tour.in.names) = 3
  /\ Len(tour.matches) = 2
  /\ tour.matches[1].Winner = tour.matches[1].B
  /\ tour.matches[2].Winner = tour.matches[2].A
  /\ tour.elo[tour.matches[1].B] > EloBaseline
  /\ tour.elo[tour.matches[1].A] # EloBaseline

----------------------------------------------------------------------------
(* expected_score as a function of two ratings *)

MaxRatingSteps == 7

\* ratings around the baseline, about 85.7 points apart
RatingChoices == {EloBaseline + 857143 * k : k \in (0 - MaxRatingSteps)..MaxRatingSteps}

InitElo ==
  /\ kb = KB
  /\ q \in {[op |-> "expected_score", in |-> [ra |-> x, rb |-> y], out |-> <<>>, done |-> FALSE] :
              x \in RatingChoices, y \in RatingChoices}
  /\ rng = IdleRng
  /\ proc = IdleProc
  /\ session = IdleSession
  /\ sched = <<>>
  /\ run = 0
  /\ idx = 0
  /\ pc = "idle"
  /\ fr = <<>>
  /\ rows = <<>>
  /\ lq = IdleCall
  /\ tour = IdleTour

\* expected_score applied to the pair of ratings, in both orders
ExpectedStep ==
  /\ q.op = "expected_score"
  /\ ~q.done
  /\ q' = [q EXCEPT !.out = [ab |-> expected_score(q.in.ra, q.in.rb),
                             ba |-> expected_score(q.in.rb, q.in.ra)],
                    !.done = TRUE]
  /\ UNCHANGED <<kb, proc, rng, session, sched, run, idx, pc, fr, rows, lq, tour>>

NextElo == ExpectedStep

SpecElo == InitElo /\ [][NextElo]_vars

ExpectedDone == q.op = "expected_score" /\ q.done

\* C12: the expected score of A against B and that of B against A sum to 1,
\* to within the resolution of the arithmetic (0.0005).
C12_ExpectedScoresSumToOne ==
  ExpectedDone => (q.out.ab + q.out.ba) - 10000 \in -5..5

C12_Witness ==
  /\ ExpectedDone
  /\ q.in.rb - q.in.ra > 4000000
  /\ q.out.ab < 1000
  /\ q.out.ba > 9000

----------------------------------------------------------------------------
(* Prompt builder *)

MIDJOURNEY_BASE(stylize, chaos) ==
  "--v 6 --style raw --s " \o ToString(stylize) \o " --chaos " \o ToString(chaos)

CAMERA_OPTS_169 ==
  <<"ultra-wide anime energy shot, meteors raining from neon storm skies, armies colliding in fire rain, hyper detail chaos, thunder explosions",
    "drone zoom over colossal banners whipping in hurricane winds, neon lightning splitting dimensions, sparks and debris tornados, cinematic mayhem",
    "ground smash perspective, dust explosions with fire rain, motion blur soldiers mid-leap through meteor showers, impossible scale energy">>

CAMERA_OPTS_916 ==
  <<"vertical anime close-up, glowing katana eyes, neon sparks erupting, furious clash mid-frame with dragon lightning",
    "low-angle towering samurai vs cavalry, colossal banners exploding overhead, neon storm skies tearing reality",
    "tight TikTok crop, chaotic firelight with anime energy, steel sparks mid-swing, viral shot composition with meteor rain">>

\* list(STYLE_PACKS.keys())
StyleNames == <<"Cinematic", "Documentary", "Painterly", "TikTok-Hype", "FULL-CRACKED-ASIAN">>

STYLE_PACKS ==
  [n \in Range(StyleNames) |->
    CASE n = "Cinematic" -> [add |-> <<"cinematic lighting", "storm clouds", "intense contrast">>,
                             s |-> <<250, 300, 350>>]
      [] n = "Documentary" -> [add |-> <<"natural light", "dust haze", "realistic grit">>,
                               s |-> <<200, 220, 240>>]
      [] n = "Painterly" -> [add |-> <<"oil-paint look", "bold color strokes", "dramatic highlights">>,
                             s |-> <<300, 350, 400>>]
      [] n = "TikTok-Hype" -> [add |-> <<"explosive energy", "slow-motion sparks", "hyper-saturated colors",
                                         "viral thumbnail quality", "lightning strikes", "fire explosions">>,
                               s |-> <<350, 400, 450>>]
      [] n = "FULL-CRACKED-ASIAN" -> [add |-> <<"anime battle energy", "glowing katanas", "dragon lightning",
                                                "neon storm skies", "impossible scale", "maximum chaos",
                                                "meteors raining", "fire rain cascades", "colossal banners">>,
                                      s |-> <<400, 450, 500>>]]

PRESETS ==
  [n \in {"Romans", "Mongols", "Samurai", "Ottomans"} |->
    CASE n = "Romans" -> [palette |-> "iron and crimson", camera |-> "low-angle wide"]
      [] n = "Mongols" -> [palette |-> "cold steppe blues", camera |-> "telephoto compression"]
      [] n = "Samurai" -> [palette |-> "lacquered black and vermilion", camera |-> "portrait close-up"]
      [] n = "Ottomans" -> [palette |-> "emerald and gold", camera |-> "elevated three-quarters view"]]

\* TERRAIN_RULES.get(key, [key])
TerrainChoices(key) == IF key \in DOMAIN TERRAIN_RULES THEN TERRAIN_RULES[key] ELSE <<key>>

\* pick_terrain_desc(key, weather_key): r is the raw draw of its choice
pick_terrain_desc(key, weather_key, r) == Choice(TerrainChoices(key), r) \o WEATHER[weather_key].vis

\* the number of draws _resolve_style and _resolve_style_name take
StyleDraws(style_pack) ==
  IF style_pack \notin DOMAIN STYLE_PACKS /\ Lower(style_pack) \in {"random", "randomized"} THEN 1 ELSE 0

\* _resolve_style_name(style_pack, rotation_idx); _resolve_style returns the
\* pack of the same name.  r is the raw draw taken in the random case.
resolve_style_name(style_pack, rotation_idx, r) ==
  IF style_pack \in DOMAIN STYLE_PACKS THEN style_pack
  ELSE IF Lower(style_pack) \in {"random", "randomized"} THEN Choice(StyleNames, r)
  ELSE IF Lower(style_pack) \in {"rotate", "rotation"} THEN StyleNames[(rotation_idx % Len(StyleNames)) + 1]
  ELSE "Cinematic"

\* build_prompts: draws are taken from state r; returns the two prompts, the
\* values chosen and the number of draws taken
build_prompts(a, b, terrain_desc, style_pack, rotation_idx, r) ==
  LET n0 == StyleDraws(style_pack)
      style_name == resolve_style_name(style_pack, rotation_idx, Draw(r, 0))
      style == STYLE_PACKS[style_name]
      adds == Join(style.add, ", ")
      stylize == Choice(style.s, Draw(r, n0))
      palette == Choice(a.palettes \o b.palettes, Draw(r, n0 + 1))
      motifs == Choice(a.motifs, Draw(r, n0 + 2)) \o ", " \o Choice(b.motifs, Draw(r, n0 + 3))
      c169 == Choice(CAMERA_OPTS_169, Draw(r, n0 + 4))
      c916 == Choice(CAMERA_OPTS_916, Draw(r, n0 + 5))
      chaos == Choice(<<0, 7, 12>>, Draw(r, n0 + 6))
      head == a.name \o " vs " \o b.name \o ", " \o terrain_desc \o ", " \o motifs \o ", "
              \o palette \o ", " \o adds \o ", "
  IN [p169 |-> head \o c169 \o " --ar 16:9 " \o MIDJOURNEY_BASE(stylize, chaos),
      p916 |-> head \o c916 \o " --ar 9:16 " \o MIDJOURNEY_BASE(stylize, chaos),
      style |-> style_name, stylize |-> stylize, chaos |-> chaos, palette |-> palette, motifs |-> motifs,
      draws |-> n0 + 7]

\* apply_preset(prompt, name)
apply_preset(prompt, name) ==
  IF name \notin DOMAIN PRESETS THEN prompt
  ELSE Replace(prompt, "--style raw",
               "--style raw, " \o PRESETS[name].palette \o ", " \o PRESETS[name].camera)

HeuristicTokens ==
  {"cinematic", "motion blur", "dust", "smoke", "banners", "low-angle", "close-up", "dynamic",
   "telephoto", "sparks"}

\* heuristic_score(prompt), in tenths
heuristic_score(prompt) ==
    10 * Cardinality({t \in HeuristicTokens : Contains(prompt, t)})
  + (IF Contains(prompt, "--chaos 0") THEN 3 ELSE 0)
  + (IF Contains(prompt, "--chaos 12") THEN 2 ELSE 0)

\* variant: the first candidate is always kept
KeepBest_First(p1, p2) == p1

\* the candidate kept: the first unless the second scores strictly higher
KeepBest(p1, p2) == IF heuristic_score(p1) >= heuristic_score(p2) THEN p1 ELSE p2

\* context_text, before line wrapping: r1, r2 the raw draws of its two choices
context_text(a, b, terrain_desc, scenario_key, r1, r2, order) ==
  sanitize("On " \o terrain_desc \o ", " \o SCENARIOS[scenario_key].desc \o ". " \o a.name
           \o " deploy with " \o Choice(a.motifs, r1) \o " and drilled formations; " \o b.name
           \o " answer with " \o Choice(b.motifs, r2) \o " from the " \o b.era
           \o ". Scouts test flanks, missiles trade, then main bodies commit.", order)

\* three digits, zero padded
Pad3(n) == IF n < 10 THEN "00" \o ToString(n) ELSE IF n < 100 THEN "0" \o ToString(n) ELSE ToString(n)

\* f"{n:,}" for 0 <= n < 1000000
Thousands(n) == IF n < 1000 THEN ToString(n) ELSE ToString(n \div 1000) \o "," \o Pad3(n % 1000)

\* f"{margin:.2f}" for a margin in thousandths
Fixed2(m) ==
  LET c == IF m >= 0 THEN MulDiv(m, 1, 10) ELSE MulDiv(-m, 1, 10)
      frac == c % 100
  IN (IF m < 0 /\ c > 0 THEN "-" ELSE "") \o ToString(c \div 100) \o "."
     \o (IF frac < 10 THEN "0" \o ToString(frac) ELSE ToString(frac))

\* the rationale text of outcome, before line wrapping
WhyText(winner, why, order) ==
  sanitize(winner \o " win: " \o Join(why.reasons, ", ") \o ". Margin ~" \o Fixed2(why.margin)
           \o "x. Visual: emphasize " \o why.visual[1] \o " against " \o why.visual[2] \o ".", order)

\* WEATHER[k]['vis'].strip(', ')
VisStripped(weather_key) ==
  LET v == WEATHER[weather_key].vis
      keep == {i \in 1..Len(v) : CharAt(v, i) \notin {",", " "}}
  IN IF keep = {} THEN "" ELSE SubSeq(v, MinOf(keep), CHOOSE m \in keep : \A n \in keep : n <= m)

\* build_deep_context, before line wrapping
build_deep_context(a, b, winner, attacker, terrain_desc, scenario_key, weather_key, casualties, order) ==
  LET p1 == "Opening: light troops screen and probe under " \o VisStripped(weather_key) \o " on "
            \o terrain_desc \o "."
      p2 == IF scenario_key \in {"ambush", "river crossing"}
            THEN "Disruption: the defender reels as the attacker forces the tempo and shapes the field."
            ELSE "Main engagement: lines close; missiles and engines set a brutal pace before infantry clinch."
      swing == IF winner = a.name
               THEN a.name \o " gain momentum-cohesion holds while pressure builds on " \o b.name \o "'s flank."
               ELSE b.name \o " turn the tide-discipline and timing crack " \o a.name \o "'s line."
      p3 == "Turning point: " \o swing
      p4 == "Collapse: reserves commit, one wing buckles and a controlled pursuit seals the result."
      ca == casualties.cas_a
      cb == casualties.cas_b
      side(f, c) == f.name \o ": " \o Thousands(c.total) \o " (K:" \o Thousands(c.killed) \o " W:"
                    \o Thousands(c.wounded) \o " C:" \o Thousands(c.captured) \o ")"
      summ == "Casualties - " \o side(a, ca) \o " / " \o side(b, cb) \o "."
  IN sanitize("Attacker: " \o attacker \o ". Conditions: " \o scenario_key \o ", " \o VisStripped(weather_key)
              \o ". Phases: " \o Join(<<p1, p2, p3, p4>>, " | ") \o " Outcome: " \o winner
              \o " carry the field after " \o casualties.duration \o ". " \o summ, order)

\* build_poll(a, b, scenario_key)
build_poll(a, b, scenario_key) ==
  [PollQ |-> CASE scenario_key = "open field" -> "What wins today?"
               [] scenario_key = "ambush" -> "Surprise or discipline-who prevails?"
               [] scenario_key = "river crossing" -> "Hold the ford or force it?"
               [] scenario_key = "hill defense" -> "Height or momentum?"
               [] scenario_key = "siege" -> "Engines or endurance?"
               [] scenario_key = "naval" -> "Rams or missiles at sea?"
               [] OTHER -> "What wins this battle?",
   Opt1 |-> "Discipline", Opt2 |-> "Cavalry",
   Opt3 |-> IF scenario_key \in {"river crossing", "naval"} THEN "Missiles" ELSE "Archers"]

----------------------------------------------------------------------------
(* Lore / commentary generator.  Dashes outside ASCII in the source's    *)
(* literals are written "-" here.                                        *)

COMPARE_POOL == <<"Yarmouk", "Cannae", "Hattin", "Ain Jalut", "Thermopylae", "Hastings">>

TWISTS ==
  <<"brother versus brother", "under twin comets", "in a dust-storm crossing",
    "with drums echoing over dunes", "as night falls early", "with reserves late to the field">>

MOMENTS ==
  <<"flank charge", "shield-wall collapse", "arrow storm lull", "cavalry counter-thrust", "river ford panic">>

FLANKS == <<"left", "right", "center", "river bank", "ridge">>

FAN_TEMPLATES ==
  <<"Does discipline beat zeal? Your call.",
    "Tap left for cavalry, right for archers.",
    "Who carries the banners at dusk? Vote below.",
    "Is logistics the real hero? Decide the victor.">>

QUOTES_PD ==
  <<[text |-> "In the midst of chaos, there is also opportunity.", author |-> "Sun Tzu"],
    [text |-> "Strategy without tactics is the slowest route to victory. Tactics without strategy is the noise before defeat.",
     author |-> "Sun Tzu"],
    [text |-> "The past resembles the future more than one drop of water resembles another.",
     author |-> "Ibn Khaldun"],
    [text |-> "Great deeds are usually wrought at great risks.", author |-> "Herodotus"]>>

\* random.choice(HOOK_TEMPLATES).format(...): k is the template's index from 0
HOOK_TEMPLATES(k, A, B, eraA, eraB, terrain, compare, twist) ==
  CASE k = 0 -> "What if " \o A \o " met " \o B \o " at full strength on " \o terrain \o "?"
    [] k = 1 -> eraA \o " vs " \o eraB \o ": whose banners hold when steel meets storm?"
    [] k = 2 -> "As fierce as " \o compare \o ", but " \o twist \o "."
    [] OTHER -> "Prophecy whispers and drums thunder-" \o A \o " against " \o B \o " under blazing skies."

\* random.choice(TACTICAL_TEMPLATES).format(...): k is the template's index from 0
TACTICAL_TEMPLATES(k, attacker, winner, loser, terrain, duration, moment, flank) ==
  CASE k = 0 -> attacker \o " seizes initiative; a sudden push at the " \o flank \o " widens into a breach."
    [] k = 1 -> "Missiles rake the line; " \o winner \o " press while " \o loser \o " staggers over "
                \o terrain \o "."
    [] OTHER -> "A " \o moment \o " turns the field; discipline and timing decide it in " \o duration \o "."

\* s[0].lower() + s[1:]
LowerFirst(s) == IF s = "" THEN "" ELSE LowerChar(SubSeq(s, 1, 1)) \o SubSeq(s, 2, Len(s))

\* s.split(",")[0]
BeforeComma(s) ==
  LET at == {i \in 1..Len(s) : CharAt(s, i) = ","}
  IN IF at = {} THEN s ELSE SubSeq(s, 1, MinOf(at) - 1)

\* whether generate_lore_snippets draws a point of view
PovDrawn(day_idx, pov) == Lower(pov) = "mixed" /\ day_idx % 2 = 0

\* variant: the generator is left in the state r0 it was in at the call
LoreReseed_Keep(r0, day_idx) == r0

\* random.seed(day_idx * 100003) at the head of generate_lore_snippets,
\* r0 being the generator's state at the call
LoreReseed(r0, day_idx) == Seeded(day_idx * 100003)

\* the generator state a call of generate_lore_snippets leaves behind
LoreRngAfter(r0, day_idx, pov) ==
  Advance(LoreReseed(r0, day_idx),
          7 + (IF PovDrawn(day_idx, pov) THEN 1 ELSE 0) + (IF day_idx % 3 = 1 THEN 1 ELSE 0))

\* r0 is the state of the shared generator when the call is made
generate_lore_snippets(a, b, winner, attacker, terrain_desc, casualties, day_idx, pov, order, r0) ==
  LET r == LoreReseed(r0, day_idx)
      terrain_short == BeforeComma(terrain_desc)
      hk == Draw(r, 0) % 4
      compare == Choice(COMPARE_POOL, Draw(r, 1))
      twist == Choice(TWISTS, Draw(r, 2))
      hook0 == HOOK_TEMPLATES(hk, a.name, b.name, a.era, b.era, terrain_short, compare, twist)
      loser == IF winner = a.name THEN b.name ELSE a.name
      tk == Draw(r, 3) % 3
      moment == Choice(MOMENTS, Draw(r, 4))
      flank == Choice(FLANKS, Draw(r, 5))
      tac0 == TACTICAL_TEMPLATES(tk, attacker, winner, loser, terrain_short, casualties.duration, moment, flank)
      fan0 == Choice(FAN_TEMPLATES, Draw(r, 6))
      tone == <<"mythic", "tactical", "cinematic">>[(day_idx % 3) + 1]
      hook1 == IF tone = "mythic" THEN hook0 \o " Omens blaze overhead; each side claims mandate." ELSE hook0
      tac1 == IF tone = "cinematic"
              THEN tac0 \o " Dust turns to sparks in the gale; banners whip like lightning." ELSE tac0
      hook2 == IF day_idx % 5 = 0 THEN "I was there-" \o LowerFirst(hook1) ELSE hook1
      fan == IF day_idx % 7 = 0 THEN fan0 \o " Had that charge landed, would the map be different?" ELSE fan0
      pov_mode == IF Lower(pov) = "mixed"
                  THEN (IF day_idx % 2 = 0 THEN Choice(<<"soldier", "commander", "bard", "none">>, Draw(r, 7))
                        ELSE "none")
                  ELSE Lower(pov)
      hook == CASE pov_mode = "soldier" -> "I " \o LowerFirst(hook2)
                [] pov_mode = "commander" -> "From my saddle I considered this: " \o LowerFirst(hook2)
                [] pov_mode = "bard" -> "Hear now: " \o hook2
                [] OTHER -> hook2
      tac == CASE pov_mode = "soldier" -> "From the ranks, " \o LowerFirst(tac1)
               [] pov_mode = "commander" -> "I commit reserves as " \o LowerFirst(tac1)
               [] pov_mode = "bard" -> "Let the record sing-" \o LowerFirst(tac1)
               [] OTHER -> tac1
      nq == 7 + (IF PovDrawn(day_idx, pov) THEN 1 ELSE 0)
      qt == Choice(QUOTES_PD, Draw(r, nq))
      quote == IF day_idx % 3 = 1 THEN "\"" \o qt.text \o "\" - " \o qt.author ELSE ""
  IN [LoreHook |-> sanitize(hook, order), TacticalBeat |-> sanitize(tac, order),
      FanPrompt |-> sanitize(fan, order), VOScript |-> sanitize(hook \o " " \o tac \o " " \o fan, order),
      Quote |-> sanitize(quote, order), Tone |-> tone]

\* variant: the variants are generated at the indices following the item's own
VariantIndex_Following(day_idx, i) == day_idx + i

\* line 637: the index variant i of item day_idx is generated at
VariantIndex(day_idx, i) == day_idx * 10 + i

\* generate_lore_variants with count = 3
generate_lore_variants(a, b, winner, attacker, terrain_desc, casualties, day_idx, pov, order, r0) ==
  LET r1 == LoreRngAfter(r0, VariantIndex(day_idx, 0), pov)
      r2 == LoreRngAfter(r1, VariantIndex(day_idx, 1), pov)
      at == <<r0, r1, r2>>
  IN [i \in 1..3 |-> generate_lore_snippets(a, b, winner, attacker, terrain_desc, casualties,
                                            VariantIndex(day_idx, i - 1), pov, order, at[i])]

\* the generator state generate_lore_variants leaves behind
VariantsRngAfter(r0, day_idx, pov) ==
  LoreRngAfter(LoreRngAfter(LoreRngAfter(r0, VariantIndex(day_idx, 0), pov), VariantIndex(day_idx, 1), pov),
               VariantIndex(day_idx, 2), pov)

\* variant: the alternate winner is the actual winner
generate_alt_timeline_SameWinner(a, b, actual_winner, attacker, terrain_desc, casualties, day_idx, order, r0) ==
  LET lore == generate_lore_snippets(a, b, actual_winner, attacker, terrain_desc, casualties,
                                     day_idx + 77, "mixed", order, r0)
  IN [AltWinner |-> actual_winner, AltVO |-> lore.VOScript \o " (alt timeline)"]

generate_alt_timeline(a, b, actual_winner, attacker, terrain_desc, casualties, day_idx, order, r0) ==
  LET alt_winner == IF actual_winner = a.name THEN b.name ELSE a.name
      lore == generate_lore_snippets(a, b, alt_winner, attacker, terrain_desc, casualties,
                                     day_idx + 77, "mixed", order, r0)
  IN [AltWinner |-> alt_winner, AltVO |-> lore.VOScript \o " (alt timeline)"]

CAPTIONS ==
  <<"Who wins? Vote below. #HypotheticalBattles", "Your call. Tactics > luck. Vote.",
    "Decide it in the comments.", "Lore or logistics-what wins?">>

----------------------------------------------------------------------------
(* Builders: build_schedule and build_single over the shared generator *)

\* the pieces matchup.split("vs")[0] and matchup.split("vs")[1]
SplitVs(matchup) ==
  LET occ == Occurrences(matchup, "vs")
      i1 == MinOf(occ)
      later == {i \in occ : i >= i1 + 2}
      e2 == IF later = {} THEN Len(matchup) ELSE MinOf(later) - 1
  IN <<SubSeq(matchup, 1, i1 - 1), SubSeq(matchup, i1 + 2, e2)>>

\* the two faction names build_schedule reads from a matchup text
MatchupNames(matchup) ==
  IF Contains(matchup, "vs")
  THEN <<Strip(Replace(SplitVs(matchup)[1], ".", "")), Strip(Replace(SplitVs(matchup)[2], ".", ""))>>
  ELSE <<"Romans", "Samurai">>

\* variant: one default faction for both sides
KBGet_OneDefault(name, default) == IF name \in DOMAIN KB THEN KB[name] ELSE KB["Samurai"]

\* KB.get(name, KB[default])
KBGet(name, default) == IF name \in DOMAIN KB THEN KB[name] ELSE KB[default]

\* the factions of item i of a schedule over base_df
ItemFactions(base_df, i) ==
  LET names == MatchupNames(base_df[(i % Len(base_df)) + 1])
  IN <<KBGet(names[1], "Romans"), KBGet(names[2], "Samurai")>>

\* winner == a, where winner is a name and a a Faction object: never equal
NameIsFaction(winner, f) == FALSE

\* variant: every item is seeded with seed_base alone
ReseedForItem_Base(r, seed_base, i) == Seeded(seed_base)

\* random.seed(seed_base + idx) at the head of build_single

ReseedForItem(r, seed_base, i) == Seeded(seed_base + i)

\* the locals of a build_single call that has not run yet
NewFrame(a, b, i) ==
  [a |-> a, b |-> b, idx |-> i, tkey |-> "", tdesc |-> "", p169 |-> "", p916 |-> "", ctx |-> "",
   winner |-> "", why |-> "", ws |-> 0, ls |-> 0, attacker |-> "", margin |-> 0,
   size_a |-> 0, size_b |-> 0, cas |-> <<>>, deep |-> "", pov_mode |-> "", alt_enable |-> FALSE,
   lore |-> <<>>, lore_variants |-> <<>>, alt |-> <<>>]

MaxDays == 2

MaxStreamPos == 11

BaseFrames ==
  {<<"Romans vs. Samurai", "Romans vs. Mongols">>,
   <<"Militia vs. Levy">>,
   <<"Atlanteans vs Ottomans", "Festival week">>}

ScheduleInputs ==
  {[base_df |-> bd, days |-> d, seed_base |-> sb, style_pack |-> sp, scenario_key |-> sc,
    weather_key |-> "fog", weights |-> get_balanced_weights, cmd_a |-> "aggressive",
    cmd_b |-> "defensive", naval_mode |-> nv] :
     bd \in BaseFrames, d \in 1..MaxDays, sb \in {12345},
     sp \in {"Cinematic", "Randomized", "Rotate"}, sc \in {"open field", "siege"}, nv \in BOOLEAN}

Init ==
  /\ kb = KB
  /\ proc = IdleProc
  /\ rng \in {Seeded(0), [seed |-> 4242, pos |-> 9]}
  /\ session = IdleSession
  /\ sched \in ScheduleInputs
  /\ run = 0
  /\ idx = 0
  /\ pc = "idle"
  /\ fr = <<>>
  /\ rows = <<<<>>, <<>>>>
  /\ q = IdleCall
  /\ lq = IdleCall
  /\ tour = IdleTour

\* other code of the session draws from the shared generator between calls
EnvDraw ==
  /\ pc = "idle" /\ run >= 1
  /\ rng.pos < MaxStreamPos
  /\ rng' = Advance(rng, 1)
  /\ UNCHANGED <<kb, proc, session, sched, run, idx, pc, fr, rows, q, lq, tour>>

\* the sidebar's POV selectbox, between calls
SetPov ==
  /\ pc = "idle" /\ run >= 1
  /\ \E p \in {"mixed", "bard"} :
       /\ p # session.pov_mode
       /\ session' = [session EXCEPT !.pov_mode = p]
  /\ UNCHANGED <<kb, proc, rng, sched, run, idx, pc, fr, rows, q, lq, tour>>

\* the sidebar's alt-timeline toggle, between calls
SetAlt ==
  /\ pc = "idle" /\ run >= 1
  /\ session' = [session EXCEPT !.alt_timeline = ~@]
  /\ UNCHANGED <<kb, proc, rng, sched, run, idx, pc, fr, rows, q, lq, tour>>

\* build_schedule is called: rows = []
BuildSchedule ==
  /\ pc = "idle" /\ run = 0
  /\ run' = 1 /\ idx' = 0 /\ pc' = "loop"
  /\ UNCHANGED <<kb, proc, rng, session, sched, fr, rows, q, lq, tour>>

\* for i in range(days): the factions of item i are looked up and build_single is entered
LoopItem ==
  /\ pc = "loop" /\ idx < sched.days
  /\ LET ab == ItemFactions(sched.base_df, idx)
     IN fr' = NewFrame(ab[1], ab[2], idx)
  /\ pc' = "seed"
  /\ UNCHANGED <<kb, proc, rng, session, sched, run, idx, rows, q, lq, tour>>

\* the loop is exhausted: build_schedule returns its rows
LoopExit ==
  /\ pc = "loop" /\ idx >= sched.days
  /\ pc' = "idle"
  /\ UNCHANGED <<kb, proc, rng, session, sched, run, idx, fr, rows, q, lq, tour>>

\* a caller invokes build_single again with the arguments of an item already built
CallAgain ==
  /\ pc = "idle" /\ run >= 1
  /\ Len(rows[2]) < Len(rows[1])
  /\ run' = 2
  /\ idx' = Len(rows[2])
  /\ LET ab == ItemFactions(sched.base_df, Len(rows[2]))
     IN fr' = NewFrame(ab[1], ab[2], Len(rows[2]))
  /\ pc' = "seed"
  /\ UNCHANGED <<kb, proc, rng, session, sched, rows, q, lq, tour>>

\* line 654: random.seed(seed_base + idx)
Reseed ==
  /\ pc = "seed"
  /\ rng' = ReseedForItem(rng, sched.seed_base, fr.idx)
  /\ pc' = "terrain"
  /\ UNCHANGED <<kb, proc, session, sched, run, idx, fr, rows, q, lq, tour>>

\* lines 655-656: pick_terrain_key, pick_terrain_desc
Terrain ==
  /\ pc = "terrain"
  /\ LET n == IF sched.naval_mode THEN 0 ELSE 1
         tkey == pick_terrain_key(fr.a, fr.b, sched.naval_mode, Draw(rng, 0))
     IN /\ fr' = [fr EXCEPT !.tkey = tkey,
                            !.tdesc = pick_terrain_desc(tkey, sched.weather_key, Draw(rng, n))]
        /\ rng' = Advance(rng, n + 1)
  /\ pc' = "prompts"
  /\ UNCHANGED <<kb, proc, session, sched, run, idx, rows, q, lq, tour>>

\* lines 657-664: two candidates per aspect ratio, preset, lint, keep the better
Prompts ==
  /\ pc = "prompts"
  /\ LET c1 == build_prompts(fr.a, fr.b, fr.tdesc, sched.style_pack, fr.idx, rng)
         r2 == Advance(rng, c1.draws)
         c2 == build_prompts(fr.a, fr.b, fr.tdesc, sched.style_pack, fr.idx + 1, r2)
         fin(p, name) == lint_prompt(apply_preset(p, name), fr.a, fr.b, proc.banned_order)
     IN /\ fr' = [fr EXCEPT !.p169 = KeepBest(fin(c1.p169, fr.a.name), fin(c2.p169, fr.a.name)),
                            !.p916 = KeepBest(fin(c1.p916, fr.b.name), fin(c2.p916, fr.b.name))]
        /\ rng' = Advance(r2, c2.draws)
  /\ pc' = "context"
  /\ UNCHANGED <<kb, proc, session, sched, run, idx, rows, q, lq, tour>>

\* line 665: context_text
Context ==
  /\ pc = "context"
  /\ fr' = [fr EXCEPT !.ctx = context_text(fr.a, fr.b, fr.tdesc, sched.scenario_key,
                                           Draw(rng, 0), Draw(rng, 1), proc.banned_order)]
  /\ rng' = Advance(rng, 2)
  /\ pc' = "outcome"
  /\ UNCHANGED <<kb, proc, session, sched, run, idx, rows, q, lq, tour>>

\* lines 666-668: outcome, choose_attacker, margin
Resolve ==
  /\ pc = "outcome"
  /\ LET o == outcome(fr.a, fr.b, fr.tkey, sched.scenario_key, sched.weather_key, sched.weights,
                      sched.cmd_a, sched.cmd_b, sched.naval_mode, OutcomeDraws(rng))
     IN /\ fr' = [fr EXCEPT !.winner = o.winner,
                            !.why = WhyText(o.winner, o.why, proc.banned_order),
                            !.ws = o.ws, !.ls = o.ls,
                            !.attacker = choose_attacker(fr.a, fr.b, sched.cmd_a, sched.cmd_b, Draw(rng, 4)),
                            !.margin = BuildSingleMargin(o.ws, o.ls)]
        /\ rng' = Advance(rng, 4 + AttackerDraws(fr.a, fr.b, sched.cmd_a, sched.cmd_b))
  /\ pc' = "forces"
  /\ UNCHANGED <<kb, proc, session, sched, run, idx, rows, q, lq, tour>>

\* line 669: estimate_force_sizes
Forces ==
  /\ pc = "forces"
  /\ LET r == ForceRange(sched.scenario_key, sched.naval_mode)
         sz == estimate_force_sizes(fr.a, fr.b, sched.scenario_key, sched.naval_mode,
                                    <<Uniform(-50, 50, Draw(rng, 0)), RandInt(r[1], r[2], Draw(rng, 1)),
                                      Uniform(-50, 50, Draw(rng, 2)), RandInt(r[1], r[2], Draw(rng, 3))>>)
     IN fr' = [fr EXCEPT !.size_a = sz[1], !.size_b = sz[2]]
  /\ rng' = Advance(rng, 4)
  /\ pc' = "casualties"
  /\ UNCHANGED <<kb, proc, session, sched, run, idx, rows, q, lq, tour>>

\* lines 670-671: estimate_casualties, build_deep_context
Casualties ==
  /\ pc = "casualties"
  /\ LET cas == estimate_casualties(fr.a, fr.b, fr.winner, fr.margin, sched.scenario_key,
                                    sched.weather_key, fr.tkey, sched.naval_mode, fr.size_a, fr.size_b,
                                    fr.attacker,
                                    <<Uniform(300, 450, Draw(rng, 0)), Uniform(450, 600, Draw(rng, 1)),
                                      Uniform(300, 450, Draw(rng, 2)), Uniform(450, 600, Draw(rng, 3)),
                                      Draw(rng, 4)>>)
     IN fr' = [fr EXCEPT !.cas = cas,
                         !.deep = build_deep_context(fr.a, fr.b, fr.winner, fr.attacker, fr.tdesc,
                                                     sched.scenario_key, sched.weather_key, cas,
                                                     proc.banned_order)]
  /\ rng' = Advance(rng, 5)
  /\ pc' = "session"
  /\ UNCHANGED <<kb, proc, session, sched, run, idx, rows, q, lq, tour>>

\* lines 672-673: the session's settings are read
ReadSession ==
  /\ pc = "session"
  /\ fr' = [fr EXCEPT !.pov_mode = session.pov_mode, !.alt_enable = session.alt_timeline]
  /\ pc' = "lore"
  /\ UNCHANGED <<kb, proc, rng, session, sched, run, idx, rows, q, lq, tour>>

\* line 674: generate_lore_snippets, which reseeds the generator
Lore ==
  /\ pc = "lore"
  /\ fr' = [fr EXCEPT !.lore = generate_lore_snippets(fr.a, fr.b, fr.winner, fr.attacker, fr.tdesc,
                                                      fr.cas, fr.idx, fr.pov_mode, proc.banned_order,
                                                      rng)]
  /\ rng' = LoreRngAfter(rng, fr.idx, fr.pov_mode)
  /\ pc' = "variants"
  /\ UNCHANGED <<kb, proc, session, sched, run, idx, rows, q, lq, tour>>

\* line 675: generate_lore_variants
Variants ==
  /\ pc = "variants"
  /\ fr' = [fr EXCEPT !.lore_variants = generate_lore_variants(fr.a, fr.b, fr.winner, fr.attacker,
                                          fr.tdesc, fr.cas, fr.idx, fr.pov_mode, proc.banned_order,
                                          rng)]
  /\ rng' = VariantsRngAfter(rng, fr.idx, fr.pov_mode)
  /\ pc' = "alt"
  /\ UNCHANGED <<kb, proc, session, sched, run, idx, rows, q, lq, tour>>

\* line 676: generate_alt_timeline when enabled
Alt ==
  /\ pc = "alt"
  /\ IF fr.alt_enable
     THEN /\ fr' = [fr EXCEPT !.alt = generate_alt_timeline(fr.a, fr.b, fr.winner, fr.attacker, fr.tdesc,
                                                            fr.cas, fr.idx, proc.banned_order, rng)]
          /\ rng' = LoreRngAfter(rng, fr.idx + 77, "mixed")
     ELSE /\ fr' = [fr EXCEPT !.alt = [AltWinner |-> "", AltVO |-> ""]]
          /\ rng' = rng
  /\ pc' = "finish"
  /\ UNCHANGED <<kb, proc, session, sched, run, idx, rows, q, lq, tour>>

\* lines 685-729: the record build_single returns
Record(f, style_used, poll, seed_base) ==
  [Day |-> "Day " \o ToString(f.idx + 1), Matchup |-> f.a.name \o " vs " \o f.b.name,
   MidJourney169 |-> f.p169, MidJourney916 |-> f.p916, Context |-> f.ctx, Analysis |-> f.deep,
   WhoWon |-> f.winner, WhyTheyWon |-> f.why, Attacker |-> f.attacker, Duration |-> f.cas.duration,
   CasualtiesA |-> f.cas.cas_a.total, CasualtiesB |-> f.cas.cas_b.total,
   CasualtyRateA |-> f.cas.rate_a, CasualtyRateB |-> f.cas.rate_b,
   LoreHook |-> f.lore.LoreHook, TacticalBeat |-> f.lore.TacticalBeat, FanPrompt |-> f.lore.FanPrompt,
   VOScript |-> f.lore.VOScript, Tone |-> f.lore.Tone, Quote |-> f.lore.Quote,
   StyleUsed |-> style_used,
   HookA |-> f.lore_variants[1].LoreHook, HookB |-> f.lore_variants[2].LoreHook,
   HookC |-> f.lore_variants[3].LoreHook,
   VOA |-> f.lore_variants[1].VOScript, VOB |-> f.lore_variants[2].VOScript,
   VOC |-> f.lore_variants[3].VOScript,
   AltWinner |-> f.alt.AltWinner, AltVO |-> f.alt.AltVO,
   PollQ |-> poll.PollQ, PollOpt1 |-> poll.Opt1, PollOpt2 |-> poll.Opt2, PollOpt3 |-> poll.Opt3,
   KilledA |-> f.cas.cas_a.killed, WoundedA |-> f.cas.cas_a.wounded, CapturedA |-> f.cas.cas_a.captured,
   KilledB |-> f.cas.cas_b.killed, WoundedB |-> f.cas.cas_b.wounded, CapturedB |-> f.cas.cas_b.captured,
   Caption |-> CAPTIONS[((seed_base + f.idx) % 4) + 1],
   Seed |-> seed_base + f.idx,
   ScoreA |-> IF NameIsFaction(f.winner, f.a) THEN f.ws ELSE f.ls,
   ScoreB |-> IF NameIsFaction(f.winner, f.b) THEN f.ws ELSE f.ls]

\* lines 677-729: style name, poll, caption; the record is returned to the caller,
\* which appends it (build_schedule, line 744) or keeps it (a direct caller)
Finish ==
  /\ pc = "finish"
  /\ LET style_used == resolve_style_name(sched.style_pack, fr.idx, Draw(rng, 0))
         row == Record(fr, style_used, build_poll(fr.a, fr.b, sched.scenario_key), sched.seed_base)
     IN rows' = [rows EXCEPT ![run] = Append(@, row)]
  /\ rng' = Advance(rng, StyleDraws(sched.style_pack))
  /\ idx' = idx + 1
  /\ pc' = IF run = 1 THEN "loop" ELSE "idle"
  /\ fr' = <<>>
  /\ UNCHANGED <<kb, proc, session, sched, run, q, lq, tour>>

Next ==
  \/ EnvDraw \/ SetPov \/ SetAlt
  \/ BuildSchedule \/ LoopItem \/ LoopExit \/ CallAgain
  \/ Reseed \/ Terrain \/ Prompts \/ Context \/ Resolve \/ Forces \/ Casualties
  \/ ReadSession \/ Lore \/ Variants \/ Alt \/ Finish

Spec == Init /\ [][Next]_vars

----------------------------------------------------------------------------
(* Claims C1, C2: reproducibility of the builders *)

\* C1: build_single called twice with the same arguments (the two factions,
\* seed_base, idx, style pack, scenario, weather, weights, commander traits,
\* naval flag) returns records equal in every field, whatever the generator's
\* state at the start of each call and whatever was drawn in between:
\* every record of a repeated call equals the record first built for its item.
C1_RepeatCallEqual ==
  \A k \in 1..Len(rows[2]) : k <= Len(rows[1]) /\ rows[2][k] = rows[1][k]

\* C2: for every item i that build_schedule processes, the generator is
\* in the state seeded with seed_base + i when the item's first draw is about
\* to be taken, and the Seed field of the item's record is seed_base + i.
C2_ReseededBeforeFirstDraw ==
  run = 1 =>
    /\ pc = "terrain" => (fr.idx = idx /\ idx < sched.days /\ rng = Seeded(sched.seed_base + idx))
    /\ \A k \in 1..Len(rows[1]) : rows[1][k].Seed = sched.seed_base + (k - 1)
    /\ (pc = "idle" => Len(rows[1]) = sched.days)

\* the second item of a schedule is about to take its first draw, the first
\* item's record being stored
C2_Witness ==
  /\ run = 1 /\ pc = "terrain" /\ fr.idx = 1
  /\ rng = Seeded(sched.seed_base + 1)
  /\ Len(rows[1]) = 1 /\ rows[1][1].Seed = sched.seed_base

\* a non-empty string of decimal digits
IsInt(s) == Len(s) >= 1 /\ \A i \in 1..Len(s) : CharIn(CharAt(s, i), DIGITS)

\* s is t followed by suffix, for some t
EndsWith(s, suffix) == Len(s) >= Len(suffix) /\ SubSeq(s, Len(s) - Len(suffix) + 1, Len(s)) = suffix

\* s without its last n characters
DropLast(s, n) == SubSeq(s, 1, Len(s) - n)

\* "<int>-<int> hours"
IntDashIntHours(s) ==
  /\ EndsWith(s, " hours")
  /\ \E i \in 1..Len(s) : /\ CharAt(s, i) = "-"
                          /\ IsInt(SubSeq(s, 1, i - 1))
                          /\ IsInt(SubSeq(s, i + 1, Len(s) - 6))

\* "<int> hours"
IntHours(s) == EndsWith(s, " hours") /\ IsInt(DropLast(s, 6))

ResolvedName(name, default) == IF name \in DOMAIN KB THEN name ELSE default

\* the matchup text of template row k of the schedule
TemplateText(k) == sched.base_df[((k - 1) % Len(sched.base_df)) + 1]

\* C15: build_schedule produces one record for every item, also for a
\* template row that names a faction absent from the registry or has no
\* "vs": side A is then Romans and side B is Samurai, and a run over `days`
\* items returns exactly `days` records.
C15_FallbackAndCount ==
  (run = 1 /\ pc = "idle") =>
    /\ Len(rows[1]) = sched.days
    /\ \A k \in 1..Len(rows[1]) :
         LET nm == MatchupNames(TemplateText(k))
         IN rows[1][k].Matchup = ResolvedName(nm[1], "Romans") \o " vs " \o ResolvedName(nm[2], "Samurai")

\* a finished schedule of two items: one names an unknown faction, the other
\* has no "vs"
C15_Witness ==
  /\ run = 1 /\ pc = "idle"
  /\ sched.days = 2
  /\ Len(rows[1]) = 2
  /\ TemplateText(1) = "Atlanteans vs Ottomans"
  /\ rows[1][1].Matchup = "Romans vs Ottomans"
  /\ TemplateText(2) = "Festival week"
  /\ rows[1][2].Matchup = "Romans vs Samurai"

----------------------------------------------------------------------------
(* The registry of factions under user loads and edits *)

\* JSON values of a user entry: t is the kind, n, s, l the payload of kinds
\* "int" and "float" (n, a float in tenths), "str" (s) and "list" (l)
JAbsent == [t |-> "absent", n |-> 0, s |-> "", l |-> <<>>]

JNull == [t |-> "null", n |-> 0, s |-> "", l |-> <<>>]

JInt(n) == [t |-> "int", n |-> n, s |-> "", l |-> <<>>]

JFloat(tenths) == [t |-> "float", n |-> tenths, s |-> "", l |-> <<>>]

JStr(s) == [t |-> "str", n |-> 0, s |-> s, l |-> <<>>]

JList(l) == [t |-> "list", n |-> 0, s |-> "", l |-> l]

\* the value of a decimal digit
DigitValue(c) == (CHOOSE k \in 1..10 : CharAt(DIGITS, k) = c) - 1

RECURSIVE ParseDigits(_)
\* the number written by a string of digits
ParseDigits(s) ==
  IF s = "" THEN 0 ELSE 10 * ParseDigits(DropLast(s, 1)) + DigitValue(CharAt(s, Len(s)))

\* int(v): ok is FALSE where int raises
IntOf(v) ==
  CASE v.t = "int" -> [ok |-> TRUE, val |-> v.n]
    [] v.t = "float" -> [ok |-> TRUE, val |-> IF v.n >= 0 THEN v.n \div 10 ELSE 0 - ((0 - v.n) \div 10)]
    [] v.t = "str" ->
         LET z == Strip(v.s)
             neg == Len(z) >= 1 /\ CharAt(z, 1) = "-"
             digits == IF neg THEN SubSeq(z, 2, Len(z)) ELSE z
         IN IF IsInt(digits)
            THEN [ok |-> TRUE, val |-> IF neg THEN 0 - ParseDigits(digits) ELSE ParseDigits(digits)]
            ELSE [ok |-> FALSE, val |-> 0]
    [] OTHER -> [ok |-> FALSE, val |-> 0]

\* int(d.get(field, 0))
IntField(v) == IF v.t = "absent" THEN [ok |-> TRUE, val |-> 0] ELSE IntOf(v)

\* list(d.get(field, default)): a string becomes the list of its characters,
\* ok is FALSE where list raises
ListField(v, default) ==
  CASE v.t = "absent" -> [ok |-> TRUE, val |-> default]
    [] v.t = "list" -> [ok |-> TRUE, val |-> v.l]
    [] v.t = "str" -> [ok |-> TRUE, val |-> [i \in 1..Len(v.s) |-> CharAt(v.s, i)]]
    [] OTHER -> [ok |-> FALSE, val |-> <<>>]

\* the body of the loader's try block for one entry: ok is FALSE when a
\* conversion raises and the entry is skipped
FactionFromEntry(d) ==
  LET ranged == IntField(d.ranged)
      cavalry == IntField(d.cavalry)
      infantry == IntField(d.infantry)
      armor == IntField(d.armor)
      discipline == IntField(d.discipline)
      siege == IntField(d.siege)
      logistics == IntField(d.logistics)
      naval == IntField(d.naval)
      terrain_pref == ListField(d.terrain_pref, <<"plains">>)
      palettes == ListField(d.palettes, <<"neutral tones">>)
      motifs == ListField(d.motifs, <<"banners">>)
  IN [ok |-> /\ ranged.ok /\ cavalry.ok /\ infantry.ok /\ armor.ok /\ discipline.ok
             /\ siege.ok /\ logistics.ok /\ naval.ok
             /\ terrain_pref.ok /\ palettes.ok /\ motifs.ok,
      f |-> Faction(d.name, IF d.era.t = "str" THEN d.era.s ELSE "Custom",
                    ranged.val, cavalry.val, infantry.val, armor.val, discipline.val,
                    siege.val, logistics.val, naval.val,
                    terrain_pref.val, palettes.val, motifs.val)]

\* dict.update: the entries of out replace those of the same name
DictUpdate(reg, out) == out @@ reg

RECURSIVE factions_from_json_UpTo(_, _)
\* the loader's dictionary after the first n entries of the list obj
factions_from_json_UpTo(obj, n) ==
  IF n = 0 THEN <<>>
  ELSE LET prev == factions_from_json_UpTo(obj, n - 1)
           d == obj[n]
           r == FactionFromEntry(d)
       IN IF d.name = "" \/ ~r.ok THEN prev ELSE DictUpdate(prev, d.name :> r.f)

\* _factions_from_json(obj) for a list of entries
factions_from_json(obj) == factions_from_json_UpTo(obj, Len(obj))

\* an entry that gives every numeric field the value v and every list field its list
Entry(name, v, terrain_pref, palettes, motifs) ==
  [name |-> name, era |-> JStr("Custom"), ranged |-> v, cavalry |-> v, infantry |-> v, armor |-> v,
   discipline |-> v, siege |-> v, logistics |-> v, naval |-> v,
   terrain_pref |-> terrain_pref, palettes |-> palettes, motifs |-> motifs]

\* the entries a user file is made of
EntryPool ==
  {Entry("Ghosts", JInt(3), JList(<<"forests">>), JList(<<"pale grey">>), JList(<<"lanterns">>)),
   Entry("Ghosts", JAbsent, JAbsent, JAbsent, JList(<<"lanterns">>)),
   Entry("Ghosts", JAbsent, JStr("plains"), JAbsent, JAbsent),
   Entry("Ghosts", JInt(9), JList(<<"forests">>), JList(<<"pale grey">>), JList(<<>>)),
   Entry("Romans", JNull, JList(<<"plains">>), JList(<<"iron red">>), JList(<<"testudo">>)),
   Entry("Romans", JStr("4"), JList(<<"plains">>), JList(<<"iron red">>), JList(<<"testudo">>)),
   Entry("Romans", JFloat(37), JList(<<"plains">>), JInt(5), JList(<<"testudo">>)),
   Entry("", JStr("abc"), JList(<<"plains">>), JList(<<"iron red">>), JList(<<"testudo">>))}

MaxEntries == 2

\* the lists of entries the user can store as user_factions.json
UserFiles == UNION {[1..n -> EntryPool] : n \in 1..MaxEntries}

RECURSIVE SplitComma(_)
\* text.split(",")
SplitComma(text) ==
  LET occ == Occurrences(text, ",")
  IN IF occ = {} THEN <<text>>
     ELSE <<SubSeq(text, 1, MinOf(occ) - 1)>> \o SplitComma(SubSeq(text, MinOf(occ) + 1, Len(text)))

RECURSIVE StrippedParts(_)
\* [s.strip() for s in parts if s.strip()]
StrippedParts(parts) ==
  IF parts = <<>> THEN <<>>
  ELSE (IF Strip(Head(parts)) = "" THEN <<>> ELSE <<Strip(Head(parts))>>) \o StrippedParts(Tail(parts))

\* what the user can enter in the form of the custom tab: a name, one position
\* for the eight sliders, the chosen terrains and the two comma-separated texts
Forms ==
  {[fx_name |-> nm, slider |-> v, fx_terrain |-> tp, fx_palettes |-> pl, fx_motifs |-> mo] :
     nm \in {"Ghosts", "Romans", "  "}, v \in {0, 5},
     tp \in {<<>>, <<"plains">>}, pl \in {"crimson gold, obsidian black", ""},
     mo \in {"dragon banners, thunder spears", " , "}}

\* cur_map[fx_name] of the form handler
FormEntry(form) ==
  Entry(form.fx_name, JInt(form.slider), JList(form.fx_terrain),
        JList(StrippedParts(SplitComma(form.fx_palettes))),
        JList(StrippedParts(SplitComma(form.fx_motifs))))

InitRegistry ==
  /\ kb = KB
  /\ q = IdleCall
  /\ rng = IdleRng
  /\ proc = IdleProc
  /\ session = IdleSession
  /\ sched = <<>>
  /\ run = 0
  /\ idx = 0
  /\ pc = "idle"
  /\ fr = <<>>
  /\ rows = <<>>
  /\ lq = IdleCall
  /\ tour = IdleTour

\* the number of loads and saves of a behaviour; run counts them
MaxOps == 2

\* "Save user_factions.json" (and the merge at start-up): the stored list goes
\* through the loader and the result is merged into the registry
LoadUserFile ==
  /\ run < MaxOps
  /\ run' = run + 1
  /\ \E data \in UserFiles :
       LET out == factions_from_json(data)
       IN /\ kb' = DictUpdate(kb, out)
          /\ q' = [op |-> "load", in |-> data, out |-> out, done |-> TRUE]
  /\ UNCHANGED <<proc, rng, session, sched, idx, pc, fr, rows, lq, tour>>

\* "Save Faction": the form's entry goes through the loader and is merged
SaveFaction ==
  /\ run < MaxOps
  /\ run' = run + 1
  /\ \E form \in Forms :
       /\ Strip(form.fx_name) # ""
       /\ LET data == <<FormEntry(form)>>
              out == factions_from_json(data)
          IN /\ kb' = DictUpdate(kb, out)
             /\ q' = [op |-> "save", in |-> data, out |-> out, done |-> TRUE]
  /\ UNCHANGED <<proc, rng, session, sched, idx, pc, fr, rows, lq, tour>>

\* "Save Faction" with a blank name: a warning, nothing is stored
SaveBlankName ==
  /\ run < MaxOps
  /\ run' = run + 1
  /\ \E form \in Forms : Strip(form.fx_name) = ""
  /\ q' = [op |-> "warn", in |-> <<>>, out |-> <<>>, done |-> TRUE]
  /\ UNCHANGED <<kb, proc, rng, session, sched, idx, pc, fr, rows, lq, tour>>

NextRegistry == LoadUserFile \/ SaveFaction \/ SaveBlankName

SpecRegistry == InitRegistry /\ [][NextRegistry]_vars

\* an entry the loader is said to skip: a numeric field is missing or is not
\* an integer, or a list field holds something that is not a list
Malformed(d) ==
  \/ \E v \in {d.ranged, d.cavalry, d.infantry, d.armor, d.discipline, d.siege, d.logistics, d.naval} :
       v.t # "int"
  \/ \E v \in {d.terrain_pref, d.palettes, d.motifs} : v.t \notin {"absent", "list"}

\* the names of the well-formed entries of a list
WellFormedNames(data) == {data[i].name : i \in {j \in 1..Len(data) : ~Malformed(data[j]) /\ data[j].name # ""}}

\* a step that passed a list of entries through the loader and merged the result
LoaderRan == q'.op \in {"load", "save"} /\ (q' # q \/ kb' # kb)

\* C16: the loader creates no Faction from a malformed entry (one that lacks
\* a numeric field or holds a wrong-typed value), and merging its result
\* leaves every registry entry not named by a well-formed entry unchanged.
C16_MalformedSkipped ==
  [][LoaderRan =>
       LET wf == WellFormedNames(q'.in)
       IN /\ DOMAIN q'.out \subseteq wf
          /\ DOMAIN kb' \subseteq (DOMAIN kb \cup wf)
          /\ \A n \in DOMAIN kb \ wf : n \in DOMAIN kb' /\ kb'[n] = kb[n]]_vars

\* C17: every faction of the registry has its eight attributes in 0..5 and
\* non-empty terrain-preference, palette and motif lists.
C17_RegistryValid ==
  \A n \in DOMAIN kb :
    /\ \A v \in {kb[n].ranged, kb[n].cavalry, kb[n].infantry, kb[n].armor,
                 kb[n].discipline, kb[n].siege, kb[n].logistics, kb[n].naval} : v \in 0..5
    /\ kb[n].terrain_pref # <<>>
    /\ kb[n].palettes # <<>>
    /\ kb[n].motifs # <<>>

----------------------------------------------------------------------------
(* generate_lore_snippets called twice with the same arguments *)

MaxLoreIdx == 7

\* the arguments of a lore call
LoreInputs ==
  {[a |-> KB[m[1]], b |-> KB[m[2]], winner |-> w, attacker |-> m[1], terrain_desc |-> "rolling fields, ground fog and haze",
    casualties |-> [duration |-> "7 hours"], day_idx |-> i, pov |-> pv, order |-> IdleProc.banned_order] :
     m \in {<<"Romans", "Samurai">>, <<"Vikings", "Ottomans">>}, w \in {"Romans", "Samurai", "Vikings", "Ottomans"},
     i \in 0..MaxLoreIdx, pv \in {"mixed", "soldier", "commander", "bard", "none"}}

InitLore ==
  /\ kb = KB
  /\ q \in {[op |-> "lore", in |-> i, before |-> <<>>, outs |-> <<>>, env |-> FALSE, done |-> FALSE] :
              i \in {x \in LoreInputs : x.winner \in {x.a.name, x.b.name}}}
  /\ rng \in {Seeded(0), [seed |-> 4242, pos |-> 9]}
  /\ proc = IdleProc
  /\ session = IdleSession
  /\ sched = <<>>
  /\ run = 0
  /\ idx = 0
  /\ pc = "idle"
  /\ fr = <<>>
  /\ rows = <<>>
  /\ lq = IdleCall
  /\ tour = IdleTour

\* one call of generate_lore_snippets on the stored arguments; the state of
\* the generator at the call is kept beside the result
LoreCall ==
  /\ q.op = "lore"
  /\ Len(q.outs) < 2
  /\ LET i == q.in
     IN /\ q' = [q EXCEPT !.before = Append(@, rng),
                          !.outs = Append(@, generate_lore_snippets(i.a, i.b, i.winner, i.attacker,
                                               i.terrain_desc, i.casualties, i.day_idx, i.pov, i.order, rng)),
                          !.done = (Len(q.outs) = 1)]
        /\ rng' = LoreRngAfter(rng, i.day_idx, i.pov)
  /\ UNCHANGED <<kb, proc, session, sched, run, idx, pc, fr, rows, lq, tour>>

\* between the calls another step of the pipeline draws from the generator or reseeds it
LoreEnvDraw ==
  /\ q.op = "lore"
  /\ Len(q.outs) = 1
  /\ ~q.env
  /\ rng' \in {Advance(rng, 1), Advance(rng, 3), Seeded(4243)}
  /\ q' = [q EXCEPT !.env = TRUE]
  /\ UNCHANGED <<kb, proc, session, sched, run, idx, pc, fr, rows, lq, tour>>

NextLore == LoreCall \/ LoreEnvDraw

SpecLore == InitLore /\ [][NextLore]_vars

\* C18: two calls of generate_lore_snippets with the same index and the same
\* other arguments return the same lore fields, whatever the state of the
\* shared generator before each call and whatever was drawn in between.
C18_LoreIndependentOfGenerator ==
  (q.op = "lore" /\ Len(q.outs) = 2) => q.outs[1] = q.outs[2]

\* the second call was made from a generator state other than the first
\* call's and other than the one the function seeds
C18_Witness ==
  /\ q.op = "lore" /\ Len(q.outs) = 2
  /\ q.before[1] # q.before[2]
  /\ q.before[2] # Seeded(q.in.day_idx * 100003)
  /\ q.before[1] # Seeded(q.in.day_idx * 100003)
  /\ q.outs[2].LoreHook # ""
  /\ q.in.pov = "mixed" /\ q.in.day_idx % 2 = 0

----------------------------------------------------------------------------
(* The alternate timeline within build_single *)

\* the step of build_single that produces the alternate timeline
AltStep == pc = "alt" /\ pc' = "finish"

\* the step of build_single that returns the record
RecordStep == pc = "finish" /\ Len(rows'[run]) = Len(rows[run]) + 1

\* C19: the alternate timeline names as Alt Winner the faction of the matchup
\* that did not win (for two factions of different names, a name other than
\* the winner's), and producing it leaves the outcome and casualty data of
\* the call unchanged: the record carries the winner, casualty numbers, rates
\* and duration computed before it.
C19_AltFlipsWinnerOnly ==
  [][/\ AltStep =>
          /\ fr.alt_enable => /\ fr'.alt.AltWinner \in {fr.a.name, fr.b.name}
                              /\ fr.a.name # fr.b.name => fr'.alt.AltWinner # fr.winner
          /\ fr'.winner = fr.winner /\ fr'.why = fr.why
          /\ fr'.ws = fr.ws /\ fr'.ls = fr.ls
          /\ fr'.cas = fr.cas
     /\ RecordStep =>
          LET row == rows'[run][Len(rows'[run])]
          IN /\ row.WhoWon = fr.winner
             /\ row.AltWinner = fr.alt.AltWinner
             /\ (row.AltWinner # "" /\ fr.a.name # fr.b.name) => row.AltWinner # row.WhoWon
             /\ row.Duration = fr.cas.duration
             /\ row.CasualtiesA = fr.cas.cas_a.total /\ row.CasualtiesB = fr.cas.cas_b.total
             /\ row.CasualtyRateA = fr.cas.rate_a /\ row.CasualtyRateB = fr.cas.rate_b]_vars

\* side B won and the alternate timeline names side A
C19_Witness ==
  /\ pc = "finish"
  /\ fr.alt_enable
  /\ fr.winner = fr.b.name
  /\ fr.alt.AltWinner = fr.a.name
  /\ fr.a.name # fr.b.name
  /\ fr.cas.cas_a.total > 0

----------------------------------------------------------------------------
(* score under a change of one weight *)

\* the weight steps tried, in hundredths: one slider step (0.01) and a full point
WeightSteps == {1, 100}

ScoreFactions == {"Romans", "Mongols", "Vikings", "Militia"}

AttributeNames == {"ranged", "cavalry", "infantry", "armor", "discipline", "siege", "logistics", "naval"}

ScoreInputs ==
  {[f |-> KB[n], cmd |-> c, terrain_key |-> "plains", scenario_key |-> sk, weather_key |-> wk,
    naval_mode |-> nv, weights |-> w, attr |-> at, step |-> st] :
     n \in ScoreFactions, c \in CommanderKeys, sk \in {"open field", "ambush", "siege"},
     wk \in {"clear", "fog"}, nv \in BOOLEAN, w \in WeightChoices, at \in AttributeNames,
     st \in WeightSteps}

InitScore ==
  /\ kb = KB
  /\ q \in {[op |-> "score", in |-> i, out |-> <<>>, done |-> FALSE] : i \in ScoreInputs}
  /\ rng = IdleRng
  /\ proc = IdleProc
  /\ session = IdleSession
  /\ sched = <<>>
  /\ run = 0
  /\ idx = 0
  /\ pc = "idle"
  /\ fr = <<>>
  /\ rows = <<>>
  /\ lq = IdleCall
  /\ tour = IdleTour

\* score of the same side under the weights and under the weights with one raised
ScoreStep ==
  /\ q.op = "score"
  /\ ~q.done
  /\ LET i == q.in
         raised == [i.weights EXCEPT ![i.attr] = @ + i.step]
     IN q' = [q EXCEPT !.out = [before |-> score(i.f, i.cmd, i.terrain_key, i.scenario_key, i.weather_key,
                                                 i.weights, i.naval_mode),
                                after |-> score(i.f, i.cmd, i.terrain_key, i.scenario_key, i.weather_key,
                                                raised, i.naval_mode)],
                       !.done = TRUE]
  /\ UNCHANGED <<kb, proc, rng, session, sched, run, idx, pc, fr, rows, lq, tour>>

NextScore == ScoreStep

SpecScore == InitScore /\ [][NextScore]_vars

ScoreDone == q.op = "score" /\ q.done

\* what the weight of attr multiplies in score: the attribute, plus five times
\* the commander's bonus where score adds one (in hundredths)
WeightedTerm(f, cmd, attr) ==
  IF attr \in {"infantry", "siege", "naval"} THEN 100 * f[attr]
  ELSE 100 * f[attr] + 5 * cmd_mod(cmd, attr)

\* C20 as stated: raising any single weight strictly raises the side's score.
C20_WeightStrictlyIncreases ==
  ScoreDone => q.out.after > q.out.before

\* C20, amended: raising any single weight never lowers the side's score, and
\* strictly raises it whenever the faction's attribute for that weight, plus
\* five times the commander trait's bonus for it, is greater than zero.
C20_WeightMonotone ==
  ScoreDone =>
    /\ q.out.after >= q.out.before
    /\ WeightedTerm(q.in.f, q.in.cmd, q.in.attr) > 0 => q.out.after > q.out.before

\* the smallest positive term: a faction with cavalry 0 under an aggressive
\* commander, the cavalry weight raised by one slider step
C20_Witness ==
  /\ ScoreDone
  /\ q.in.f.cavalry = 0
  /\ q.in.attr = "cavalry"
  /\ q.in.cmd = "aggressive"
  /\ q.in.step = 1
  /\ q.out.after > q.out.before

----------------------------------------------------------------------------
(* The generator across the pairings of play_round_robin *)

\* C21: every pairing of play_round_robin is resolved from a generator that
\* was seeded just before it (no draw taken since the seeding), so that the
\* pairing's result does not depend on the draws of the pairings before it.
C21_ReseededBeforeEveryPairing ==
  [][PairingPlayed => rng.pos = 0]_vars

----------------------------------------------------------------------------
(* The closing reason of the rationale *)

\* C22: the reason list returned by outcome ends with "commander edge: "
\* followed by the commander trait of the side that won: cmd_a when side A
\* wins (its final score is greater or equal), cmd_b when side B wins.
C22_CommanderEdgeNamesWinner ==
  OutcomeDone =>
    LET r == q.out.res
        reasons == r.why.reasons
    IN /\ Len(reasons) >= 1
       /\ reasons[Len(reasons)] =
            "commander edge: " \o (IF r.a_score >= r.b_score THEN q.in.cmd_a ELSE q.in.cmd_b)

----------------------------------------------------------------------------
(* The builders and the session's settings *)

\* the fields of a record that come from the lore, variant and alternate
\* timeline generators
NarrativeFields ==
  {"LoreHook", "TacticalBeat", "FanPrompt", "VOScript", "Tone", "Quote",
   "HookA", "HookB", "HookC", "VOA", "VOB", "VOC", "AltWinner", "AltVO"}

\* C23: the record build_single returns depends only on its arguments: a
\* call repeated with the arguments of an earlier one returns the same
\* narrative fields (lore, variants, alternate timeline) as the earlier call,
\* whatever the session's point-of-view mode and alt-timeline toggle are at
\* either call.
C23_RecordIndependentOfSession ==
  \A k \in 1..Len(rows[2]) :
    k <= Len(rows[1]) => \A fld \in NarrativeFields : rows[2][k][fld] = rows[1][k][fld]

----------------------------------------------------------------------------
(* The score of a side before jitter *)

\* C24: before jitter, a side's score is the weighted sum of its attributes,
\* five times the commander's bonus being added to discipline, armor,
\* logistics, ranged and cavalry only, the naval term scaled by 1.0 in naval
\* mode and by 0.2 otherwise; the sum is multiplied by 1.05 exactly when the
\* terrain key is among the faction's preferred terrains, by 1 + the weather
\* score, and by 1 + the modifier of every attribute in the scenario's
\* modifier map.
C24_ScoreFormula ==
  ScoreDone =>
    LET i == q.in
        f == i.f
        w == i.weights
        bonus(at) == IF at \in DOMAIN COMMANDERS[i.cmd] THEN 5 * COMMANDERS[i.cmd][at] ELSE 0
        sum == w.discipline * (100 * f.discipline + bonus("discipline"))
             + w.armor * (100 * f.armor + bonus("armor"))
             + w.logistics * (100 * f.logistics + bonus("logistics"))
             + w.ranged * (100 * f.ranged + bonus("ranged"))
             + w.cavalry * (100 * f.cavalry + bonus("cavalry"))
             + w.infantry * 100 * f.infantry
             + w.siege * 100 * f.siege
             + (IF i.naval_mode THEN w.naval * 100 * f.naval ELSE (w.naval * 100 * f.naval * 2) \div 10)
        preferred == \E k \in 1..Len(f.terrain_pref) : f.terrain_pref[k] = i.terrain_key
        t == IF preferred THEN MulDiv(sum, 105, 100) ELSE sum
        wt == MulDiv(t, 100 + WEATHER[i.weather_key].score, 100)
        mods == SCENARIOS[i.scenario_key].mod
        s1 == IF Len(mods) >= 1 THEN MulDiv(wt, 100 + mods[1][2], 100) ELSE wt
        s2 == IF Len(mods) >= 2 THEN MulDiv(s1, 100 + mods[2][2], 100) ELSE s1
        s3 == IF Len(mods) >= 3 THEN MulDiv(s2, 100 + mods[3][2], 100) ELSE s2
    IN /\ Len(mods) <= 3
       /\ q.out.before = s3

\* a side on a terrain it does not prefer, in fog, in an ambush (three
\* modifiers), out of naval mode, under a commander with two bonuses
C24_Witness ==
  /\ ScoreDone
  /\ q.in.terrain_key \notin Range(q.in.f.terrain_pref)
  /\ q.in.weather_key = "fog"
  /\ q.in.scenario_key = "ambush"
  /\ ~q.in.naval_mode
  /\ q.in.cmd = "defensive"
  /\ q.in.f.naval > 0
  /\ q.out.before > 0

----------------------------------------------------------------------------
(* The score fields of a record *)

\* C25: in the record build_single returns for two factions of different
\* names, Score A is side A's final score and Score B is side B's final score
\* from the resolution that decided Who Won?, so that the winner's field is
\* greater than or equal to the other.
C25_ScoreFieldsBySide ==
  [][(RecordStep /\ fr.a.name # fr.b.name) =>
       LET row == rows'[run][Len(rows'[run])]
           a_final == IF fr.winner = fr.a.name THEN fr.ws ELSE fr.ls
           b_final == IF fr.winner = fr.b.name THEN fr.ws ELSE fr.ls
       IN /\ row.WhoWon = fr.winner
          /\ row.ScoreA = a_final
          /\ row.ScoreB = b_final
          /\ row.WhoWon = fr.a.name => row.ScoreA >= row.ScoreB
          /\ row.WhoWon = fr.b.name => row.ScoreB >= row.ScoreA]_vars

----------------------------------------------------------------------------
(* The style named in a record *)

\* the prompt carries the descriptor phrases of the style pack and one of its
\* stylize values
BuiltWithStyle(prompt, style_name) ==
  /\ Contains(prompt, ", " \o Join(STYLE_PACKS[style_name].add, ", ") \o ", ")
  /\ \E s \in Range(STYLE_PACKS[style_name].s) : Contains(prompt, "--s " \o ToString(s) \o " ")

\* C26: in every record build_single returns, for every style selection
\* (a pack's name, or the sentinels for a random and for a rotating pack),
\* Style Used names the style pack whose descriptor phrases and stylize value
\* are in the 16:9 and 9:16 prompts kept in that record.
C26_StyleUsedBuiltPrompts ==
  \A rn \in 1..2 : \A k \in 1..Len(rows[rn]) :
    /\ rows[rn][k].StyleUsed \in DOMAIN STYLE_PACKS
    /\ BuiltWithStyle(rows[rn][k].MidJourney169, rows[rn][k].StyleUsed)
    /\ BuiltWithStyle(rows[rn][k].MidJourney916, rows[rn][k].StyleUsed)

----------------------------------------------------------------------------
(* The two candidate pairs of prompts and the prompts kept *)

\* the step of build_single that builds the candidates and keeps two prompts
PromptsStep == pc = "prompts" /\ pc' = "context"

\* lines 657-662: the two candidate pairs after preset and lint, with the
\* values build_prompts chose for each pair
Candidates ==
  LET c1 == build_prompts(fr.a, fr.b, fr.tdesc, sched.style_pack, fr.idx, rng)
      c2 == build_prompts(fr.a, fr.b, fr.tdesc, sched.style_pack, fr.idx + 1, Advance(rng, c1.draws))
  IN [p169_1 |-> lint_prompt(apply_preset(c1.p169, fr.a.name), fr.a, fr.b, proc.banned_order),
      p916_1 |-> lint_prompt(apply_preset(c1.p916, fr.b.name), fr.a, fr.b, proc.banned_order),
      p169_2 |-> lint_prompt(apply_preset(c2.p169, fr.a.name), fr.a, fr.b, proc.banned_order),
      p916_2 |-> lint_prompt(apply_preset(c2.p916, fr.b.name), fr.a, fr.b, proc.banned_order),
      c1 |-> c1, c2 |-> c2]

\* the prompt carries the motifs, palette, style descriptors, stylize value
\* and chaos value chosen for the candidate pair c
CarriesChoices(prompt, c) ==
  /\ Contains(prompt, ", " \o c.motifs \o ", " \o c.palette \o ", "
                      \o Join(STYLE_PACKS[c.style].add, ", ") \o ", ")
  /\ Contains(prompt, " --s " \o ToString(c.stylize) \o " --chaos " \o ToString(c.chaos))

\* C27 as stated: the kept 16:9 prompt and the kept 9:16 prompt come from the
\* same one of the two candidate pairs.
C27_KeptFromSamePair ==
  [][PromptsStep =>
       LET c == Candidates
       IN \/ (fr'.p169 = c.p169_1 /\ fr'.p916 = c.p916_1)
          \/ (fr'.p169 = c.p169_2 /\ fr'.p916 = c.p916_2)]_vars

\* C27, amended: each kept prompt is, for its own aspect ratio, the
\* higher-scoring of the two candidates (the first on a tie); the two kept
\* prompts come from the same candidate pair exactly when the same candidate
\* is kept for both ratios, and then both carry that pair's motifs, palette,
\* style descriptors, stylize value and chaos value.
C27_KeptPerAspectRatio ==
  [][PromptsStep =>
       LET c == Candidates
           s169_1 == heuristic_score(c.p169_1)
           s169_2 == heuristic_score(c.p169_2)
           s916_1 == heuristic_score(c.p916_1)
           s916_2 == heuristic_score(c.p916_2)
           first169 == s169_1 >= s169_2
           first916 == s916_1 >= s916_2
       IN /\ fr'.p169 = (IF first169 THEN c.p169_1 ELSE c.p169_2)
          /\ fr'.p916 = (IF first916 THEN c.p916_1 ELSE c.p916_2)
          /\ (first169 /\ first916) =>
               (CarriesChoices(fr'.p169, c.c1) /\ CarriesChoices(fr'.p916, c.c1))
          /\ (~first169 /\ ~first916) =>
               (CarriesChoices(fr'.p169, c.c2) /\ CarriesChoices(fr'.p916, c.c2))]_vars

\* the stylize and chaos suffixes a prompt can end with
PromptSuffixes ==
  {" --s " \o ToString(s) \o " --chaos " \o ToString(ch) :
     s \in UNION {Range(STYLE_PACKS[n].s) : n \in DOMAIN STYLE_PACKS}, ch \in {0, 7, 12}}

\* the prompts were kept from different candidate pairs: no stylize and chaos
\* suffix is common to the two
C27_Witness ==
  /\ pc = "context"
  /\ \A sfx \in PromptSuffixes : ~(Contains(fr.p169, sfx) /\ Contains(fr.p916, sfx))

----------------------------------------------------------------------------
(* Resolution and casualties of one matchup, as build_single chains them *)

BattleInputs ==
  {[a |-> KB[an], b |-> KB[bn], terrain_key |-> "plains", scenario_key |-> sk, weather_key |-> wk,
    weights |-> w, cmd_a |-> "aggressive", cmd_b |-> "defensive", naval_mode |-> FALSE] :
     an \in ResolveFactions, bn \in ResolveFactions, sk \in ScenarioKeys, wk \in {"clear", "fog"},
     w \in WeightChoices}

InitBattle ==
  /\ kb = KB
  /\ q \in {[op |-> "battle", in |-> i, out |-> <<>>, done |-> FALSE] : i \in BattleInputs}
  /\ rng = IdleRng
  /\ proc = IdleProc
  /\ session = IdleSession
  /\ sched = <<>>
  /\ run = 0
  /\ idx = 0
  /\ pc = "idle"
  /\ fr = <<>>
  /\ rows = <<>>
  /\ lq = IdleCall
  /\ tour = IdleTour

\* build_single, lines 666-670: outcome, choose_attacker, margin, force sizes
\* and casualties, for any pair of jitters and any draw of the attacker
BattleStep ==
  /\ q.op = "battle" /\ ~q.done
  /\ \E ja \in JitterChoices, jb \in JitterChoices, r \in {0, 1} :
       LET i == q.in
           res == outcome(i.a, i.b, i.terrain_key, i.scenario_key, i.weather_key, i.weights,
                          i.cmd_a, i.cmd_b, i.naval_mode, [ja |-> ja, jb |-> jb, m1 |-> r, m2 |-> r])
           attacker == choose_attacker(i.a, i.b, i.cmd_a, i.cmd_b, r)
           margin == BuildSingleMargin(res.ws, res.ls)
           fr0 == ForceRange(i.scenario_key, i.naval_mode)
           sz == estimate_force_sizes(i.a, i.b, i.scenario_key, i.naval_mode,
                                      <<0, fr0[2], 0, fr0[2]>>)
           cas == estimate_casualties(i.a, i.b, res.winner, margin, i.scenario_key, i.weather_key,
                                      i.terrain_key, i.naval_mode, sz[1], sz[2], attacker,
                                      <<300, 450, 300, 450, r>>)
       IN q' = [q EXCEPT !.out = [res |-> res, attacker |-> attacker, margin |-> margin, cas |-> cas],
                         !.done = TRUE]
  /\ UNCHANGED <<kb, proc, rng, session, sched, run, idx, pc, fr, rows, lq, tour>>

NextBattle == BattleStep

SpecBattle == InitBattle /\ [][NextBattle]_vars

BattleDone == q.op = "battle" /\ q.done

\* C28: for factions with attributes in 0..5 and positive weights, the
\* casualty rate build_single records for the side that won (side A when its
\* final score is greater or equal, side B otherwise) is never greater than
\* the rate it records for the side that lost.
C28_WinnerRateNotGreater ==
  BattleDone =>
    LET r == q.out.res
        c == q.out.cas
    IN /\ r.a_score >= r.b_score => c.rate_a <= c.rate_b
       /\ r.b_score > r.a_score => c.rate_b <= c.rate_a

----------------------------------------------------------------------------
(* The total of the ratings in a tournament *)

RECURSIVE RatingSum(_, _)
\* the sum of the ratings of the factions in names
RatingSum(names, elo) ==
  IF names = {} THEN 0
  ELSE LET n == CHOOSE x \in names : TRUE
       IN elo[n] + RatingSum(names \ {n}, elo)

\* C29: once the ratings are set up, and after every pairing folded in by
\* play_round_robin, the ratings of all factions sum to 1500 x N, N being the
\* number of distinct factions of the tournament.
C29_RatingSumConserved ==
  tour.pc \in {"loop", "done"} =>
    /\ DOMAIN tour.elo = Range(tour.in.names)
    /\ RatingSum(DOMAIN tour.elo, tour.elo) = EloBaseline * Cardinality(Range(tour.in.names))

\* three factions after their third pairing, all three ratings moved, the
\* second one above the baseline and the third below
C29_Witness ==
  /\ tour.pc = "loop"
  /\ Len(tour.in.names) = 3
  /\ Len(tour.matches) = 3
  /\ \A n \in DOMAIN tour.elo : tour.elo[n] # EloBaseline
  /\ tour.elo[tour.in.names[2]] > EloBaseline
  /\ tour.elo[tour.in.names[3]] < EloBaseline

----------------------------------------------------------------------------
(* The primary lore of an item and its variants *)

MaxCount == 3

\* the arguments of the lore calls of one item, and the number of variants
VariantInputs ==
  {[a |-> KB[m[1]], b |-> KB[m[2]], winner |-> m[1], attacker |-> m[2],
    terrain_desc |-> "rolling fields, ground fog and haze", casualties |-> [duration |-> "7 hours"],
    day_idx |-> i, pov |-> pv, count |-> c, order |-> IdleProc.banned_order] :
     m \in {<<"Romans", "Samurai">>, <<"Vikings", "Ottomans">>}, i \in 0..MaxLoreIdx,
     pv \in {"mixed", "bard", "none"}, c \in 0..MaxCount}

InitVariants ==
  /\ kb = KB
  /\ q \in {[op |-> "variants", in |-> i, primary |-> <<>>, variants |-> <<>>, done |-> FALSE] :
              i \in VariantInputs}
  /\ rng \in {Seeded(0), [seed |-> 4242, pos |-> 9]}
  /\ proc = IdleProc
  /\ session = IdleSession
  /\ sched = <<>>
  /\ run = 0
  /\ idx = 0
  /\ pc = "idle"
  /\ fr = <<>>
  /\ rows = <<>>
  /\ lq = IdleCall
  /\ tour = IdleTour

\* build_single, line 674: the item's primary lore, generated at its own
\* index; the seed the call sets is kept beside the result
PrimaryLore ==
  /\ q.op = "variants" /\ q.primary = <<>>
  /\ LET i == q.in
     IN /\ rng' = LoreRngAfter(rng, i.day_idx, i.pov)
        /\ q' = [q EXCEPT !.primary =
                   [index |-> i.day_idx, seed |-> rng'.seed,
                    out |-> generate_lore_snippets(i.a, i.b, i.winner, i.attacker, i.terrain_desc,
                                                   i.casualties, i.day_idx, i.pov, i.order, rng)]]
  /\ UNCHANGED <<kb, proc, session, sched, run, idx, pc, fr, rows, lq, tour>>

\* generate_lore_variants, lines 632-638: one iteration of the loop over
\* range(max(1, count)), or its end
VariantIter ==
  /\ q.op = "variants" /\ q.primary # <<>> /\ ~q.done
  /\ LET i == q.in
         n == Len(q.variants)
         at == VariantIndex(i.day_idx, n)
     IN IF n < Max2(1, i.count)
        THEN /\ rng' = LoreRngAfter(rng, at, i.pov)
             /\ q' = [q EXCEPT !.variants = Append(@,
                        [index |-> at, seed |-> rng'.seed,
                         out |-> generate_lore_snippets(i.a, i.b, i.winner, i.attacker, i.terrain_desc,
                                                        i.casualties, at, i.pov, i.order, rng)])]
        ELSE /\ rng' = rng
             /\ q' = [q EXCEPT !.done = TRUE]
  /\ UNCHANGED <<kb, proc, session, sched, run, idx, pc, fr, rows, lq, tour>>

NextVariants == PrimaryLore \/ VariantIter

SpecVariants == InitVariants /\ [][NextVariants]_vars

VariantsDone == q.op = "variants" /\ q.done

\* the variants are generated at index idx x 10 + i, i counted from 0, and
\* their indices and reseed values are pairwise distinct
VariantIndicesDistinct ==
  /\ Len(q.variants) = Max2(1, q.in.count)
  /\ \A i \in 1..Len(q.variants) : q.variants[i].index = q.in.day_idx * 10 + (i - 1)
  /\ \A i, j \in 1..Len(q.variants) :
       i # j => (q.variants[i].index # q.variants[j].index /\ q.variants[i].seed # q.variants[j].seed)

\* C30 as stated: for every item index idx >= 0 the variants are generated at
\* idx x 10 + i, at pairwise distinct indices that all differ from the index
\* idx of the item's primary lore, so that no variant is generated from the
\* reseed value of the primary lore or of another variant.
C30_VariantsApartFromPrimary ==
  VariantsDone =>
    /\ VariantIndicesDistinct
    /\ \A i \in 1..Len(q.variants) :
         q.variants[i].index # q.primary.index /\ q.variants[i].seed # q.primary.seed

\* C30, amended: for every item index idx >= 0 the variants are generated at
\* idx x 10 + i, at pairwise distinct indices and reseed values; they differ
\* from the index and reseed value of the item's primary lore for every
\* idx >= 1, while for idx = 0 variant 0 (and no other) is generated at index
\* 0, the primary lore's own index and reseed value, and is the same lore.
C30_VariantsApartExceptFirstItem ==
  VariantsDone =>
    /\ VariantIndicesDistinct
    /\ \A i \in 1..Len(q.variants) :
         /\ (q.variants[i].index = q.primary.index) <=> (q.in.day_idx = 0 /\ i = 1)
         /\ (q.variants[i].seed = q.primary.seed) <=> (q.in.day_idx = 0 /\ i = 1)
    /\ q.in.day_idx = 0 => q.variants[1].out = q.primary.out

\* the first item with three variants: variant 0 shares the primary lore's
\* reseed value, variants 1 and 2 do not
C30_Witness ==
  /\ VariantsDone
  /\ q.in.day_idx = 0
  /\ Len(q.variants) = 3
  /\ q.variants[1].seed = q.primary.seed
  /\ q.variants[2].seed # q.primary.seed
  /\ q.variants[3].seed # q.primary.seed
  /\ q.variants[1].out = q.primary.out

====
